---- MODULE Spec2Model ----
(***************************************************************************)
(* Secrets resolution and settings bootstrap of the FastAPI service:       *)
(* app/secrets_manager.py (store client, lru cache, resolvers) and         *)
(* app/config.py (Settings, get_settings), and the HTTP surface built on   *)
(* them: app/main.py and app/api/routes.py; and the command-line tool that *)
(* writes the secrets, scripts/manage_secrets.py.                          *)
(***************************************************************************)
EXTENDS Integers, Sequences, FiniteSets, TLC

VARIABLES
    env,               \* os.environ: a partial map, variable name -> string
    remote,            \* the remote store: group name -> outcome of one GetSecretValue request
    boto3_ok,          \* whether boto3.client("secretsmanager", ...) can be built right now
    instances,         \* the SecretsManager objects built so far; an object's id is its index
    _secrets_manager,  \* the module global; NoneRef or the id of a SecretsManager
    cache,             \* the lru_cache of SecretsManager.get_secret, least recently used first
    netCalls,          \* group name -> number of GetSecretValue requests sent for it
    marker,            \* whether the path /var/lib/cloud/instance exists
    settings_objs,     \* the Settings objects built so far; an object's id is its index
    settings_cache,    \* the lru_cache of get_settings; NoneRef or the id of a Settings
    main_settings,     \* app.main.settings; NoneRef until app.main is imported
    posted,            \* the payloads the clients have posted so far, in order
    threads,           \* thread -> where it is in get_app_secret, with its locals
    cli,               \* CLI invocation -> where it is in set_app_secret, with its locals
    last               \* the call that completed last, with what it returned or raised

settingsVars == <<marker, settings_objs, settings_cache>>
appVars == <<main_settings, posted, threads, cli>>
vars == <<env, remote, boto3_ok, instances, _secrets_manager, cache, netCalls,
          marker, settings_objs, settings_cache, main_settings, posted, threads,
          cli, last>>

------------------------------------------------------------------------------
(* Python values and exceptions                                            *)

None == [t |-> "none"]
Str(s) == [t |-> "str", s |-> s]
Dict(d) == [t |-> "dict", d |-> d]
List(items) == [t |-> "list", items |-> items]
\* a reference to the SecretsManager object with this id
Ref(id) == [t |-> "ref", id |-> id]

NoneRef == 0

Return(v) == [kind |-> "return", value |-> v]
Raise(e) == [kind |-> "raise", exc |-> e]

\* botocore.exceptions.ClientError carrying response["Error"]["Code"]
ClientError(code) == [type |-> "ClientError", code |-> code]
\* a botocore error that is not a ClientError (no connection to the endpoint)
EndpointConnectionError == [type |-> "EndpointConnectionError"]
\* boto3.client(...) itself failing (bad profile, bad region, no SDK data)
BotoCoreError == [type |-> "BotoCoreError"]
ValueError(what, name) == [type |-> "ValueError", what |-> what, name |-> name]
PermissionError(name) == [type |-> "PermissionError", name |-> name]
\* json.JSONDecodeError is a subclass of ValueError
JSONDecodeError == [type |-> "JSONDecodeError"]
AttributeError == [type |-> "AttributeError"]

\* isinstance(e, ValueError)
IsValueError(e) == e.type \in {"ValueError", "JSONDecodeError"}
\* isinstance(e, PermissionError)
IsPermissionError(e) == e.type = "PermissionError"
\* isinstance(e, ClientError)
IsClientError(e) == e.type = "ClientError"

------------------------------------------------------------------------------
(* JSON text.  A document is kept as its syntax: an object is the sequence *)
(* of its members in textual order (a key may occur twice), an array the   *)
(* sequence of its items, and text that is no JSON at all is "invalid".    *)

JsonObject(members) == [form |-> "object", members |-> members]
JsonArray(items) == [form |-> "array", items |-> items]
JsonInvalid == [form |-> "invalid"]

MemberKeys(members) == {members[i][1] : i \in 1..Len(members)}

\* the member that decides the value of key k: json.loads keeps the last one
DecidingMember(members, k) ==
    CHOOSE i \in 1..Len(members) :
        members[i][1] = k /\ \A j \in (i + 1)..Len(members) : members[j][1] # k

\* json.loads(text)
json_loads(text) ==
    CASE text.form = "object" ->
            Return(Dict([k \in MemberKeys(text.members) |->
                            text.members[DecidingMember(text.members, k)][2]]))
      [] text.form = "array" -> Return(List(text.items))
      [] OTHER -> Raise(JSONDecodeError)

\* dict.get(key, default); the dict's values are strings
dict_get_no_default(d, key, default) ==
    IF key \in DOMAIN d THEN Str(d[key]) ELSE None
dict_get(d, key, default) ==
    IF key \in DOMAIN d THEN Str(d[key]) ELSE default

\* str.upper() on the key names in use
upper(s) ==
    CASE s = "jwt_secret" -> "JWT_SECRET"
      [] s = "Jwt_Secret" -> "JWT_SECRET"
      [] s = "db_password" -> "DB_PASSWORD"
      [] s = "api_keys" -> "API_KEYS"
      [] OTHER -> s

\* os.getenv(name, default): the variable's string, or default when unset
getenv(name, default) ==
    IF name \in DOMAIN env THEN Str(env[name]) ELSE default

\* truthiness of an os.getenv result: None and "" are falsy
Truthy(v) == v.t = "str" /\ v.s # ""

------------------------------------------------------------------------------
(* SecretsManager                                                          *)

maxsize == 32

\* the process state the calls below read and write
World == [instances |-> instances, sm |-> _secrets_manager,
          cache |-> cache, netCalls |-> netCalls]

\* SecretsManager.__init__(region_name=None)
SecretsManager_init(w) ==
    LET region_name == getenv("AWS_REGION", Str("us-east-1")).s
    IN  IF boto3_ok
        THEN [w |-> [w EXCEPT !.instances = Append(@, [region_name |-> region_name])],
              out |-> Return(Len(w.instances) + 1)]
        ELSE [w |-> w, out |-> Raise(BotoCoreError)]

\* the body of SecretsManager.get_secret, given what the request to the store
\* answered: Return(response) or Raise(error)
get_secret_body_wrap_all(secret_name, answer) ==
    IF answer.kind = "return"
    THEN IF "SecretString" \in DOMAIN answer.value
         THEN json_loads(answer.value.SecretString)
         ELSE Raise(ValueError("binary not supported", secret_name))
    ELSE IF IsClientError(answer.exc)
         THEN IF answer.exc.code = "AccessDeniedException"
              THEN Raise(PermissionError(secret_name))
              ELSE Raise(ValueError("not found", secret_name))
         ELSE Raise(answer.exc)
get_secret_body(secret_name, answer) ==
    IF answer.kind = "return"
    THEN IF "SecretString" \in DOMAIN answer.value
         THEN json_loads(answer.value.SecretString)
         ELSE Raise(ValueError("binary not supported", secret_name))
    ELSE IF IsClientError(answer.exc)
         THEN IF answer.exc.code = "ResourceNotFoundException"
              THEN Raise(ValueError("not found", secret_name))
              ELSE IF answer.exc.code = "AccessDeniedException"
                   THEN Raise(PermissionError(secret_name))
                   ELSE Raise(answer.exc)
         ELSE Raise(answer.exc)

\* position of key in the lru cache, 0 when it holds no entry for key
CacheIndex(c, key) ==
    IF \E i \in 1..Len(c) : c[i].key = key
    THEN CHOOSE i \in 1..Len(c) : c[i].key = key
    ELSE 0

RemoveAt(s, i) == SubSeq(s, 1, i - 1) \o SubSeq(s, i + 1, Len(s))

\* functools.lru_cache: a new entry goes to the most recently used end and,
\* when the cache is full, the least recently used entry is dropped
CacheStoreDropNewest(c, key, value) ==
    IF Len(c) >= maxsize
    THEN Append(SubSeq(c, 1, Len(c) - 1), [key |-> key, value |-> value])
    ELSE Append(c, [key |-> key, value |-> value])
CacheStore(c, key, value) ==
    IF Len(c) >= maxsize
    THEN Append(Tail(c), [key |-> key, value |-> value])
    ELSE Append(c, [key |-> key, value |-> value])

\* SecretsManager.get_secret(self, secret_name) under @lru_cache(maxsize=32):
\* a hit returns the stored result; a miss runs the body, which sends one
\* request, and stores the result only when the body returns
get_secret_no_cache(w, self, secret_name) ==
    LET out == get_secret_body(secret_name, remote[secret_name])
    IN  [w |-> [w EXCEPT !.netCalls[secret_name] = @ + 1], out |-> out, net |-> 1]
get_secret_cache_errors(w, self, secret_name) ==
    LET key == <<self, secret_name>>
        i == CacheIndex(w.cache, key)
    IN  IF i > 0
        THEN [w |-> [w EXCEPT !.cache = Append(RemoveAt(@, i), w.cache[i])],
              out |-> IF w.cache[i].value.t = "error"
                      THEN Raise(w.cache[i].value.exc) ELSE Return(w.cache[i].value),
              net |-> 0]
        ELSE LET out == get_secret_body(secret_name, remote[secret_name])
                 w1 == [w EXCEPT !.netCalls[secret_name] = @ + 1]
             IN  [w |-> [w1 EXCEPT !.cache =
                            CacheStore(@, key, IF out.kind = "return" THEN out.value
                                               ELSE [t |-> "error", exc |-> out.exc])],
                  out |-> out, net |-> 1]
get_secret_remember_not_found(w, self, secret_name) ==
    LET key == <<self, secret_name>>
        i == CacheIndex(w.cache, key)
    IN  IF i > 0
        THEN [w |-> [w EXCEPT !.cache = Append(RemoveAt(@, i), w.cache[i])],
              out |-> IF w.cache[i].value.t = "missing"
                      THEN Raise(w.cache[i].value.exc) ELSE Return(w.cache[i].value),
              net |-> 0]
        ELSE LET out == get_secret_body(secret_name, remote[secret_name])
                 w1 == [w EXCEPT !.netCalls[secret_name] = @ + 1]
             IN  IF out.kind = "return"
                 THEN [w |-> [w1 EXCEPT !.cache = CacheStore(@, key, out.value)],
                       out |-> out, net |-> 1]
                 ELSE IF IsValueError(out.exc)
                      THEN [w |-> [w1 EXCEPT !.cache =
                                      CacheStore(@, key, [t |-> "missing",
                                                          exc |-> out.exc])],
                            out |-> out, net |-> 1]
                      ELSE [w |-> w1, out |-> out, net |-> 1]
get_secret(w, self, secret_name) ==
    LET key == <<self, secret_name>>
        i == CacheIndex(w.cache, key)
    IN  IF i > 0
        THEN [w |-> [w EXCEPT !.cache = Append(RemoveAt(@, i), w.cache[i])],
              out |-> Return(w.cache[i].value), net |-> 0]
        ELSE LET out == get_secret_body(secret_name, remote[secret_name])
                 w1 == [w EXCEPT !.netCalls[secret_name] = @ + 1]
             IN  IF out.kind = "return"
                 THEN [w |-> [w1 EXCEPT !.cache = CacheStore(@, key, out.value)],
                       out |-> out, net |-> 1]
                 ELSE [w |-> w1, out |-> out, net |-> 1]

\* SecretsManager.get_secret_value(self, secret_name, key, default)
get_secret_value_catch_all(w, self, secret_name, key, default) ==
    LET r == get_secret(w, self, secret_name)
    IN  IF r.out.kind = "return"
        THEN IF r.out.value.t = "dict"
             THEN [r EXCEPT !.out = Return(dict_get(r.out.value.d, key, default))]
             ELSE [r EXCEPT !.out = Raise(AttributeError)]
        ELSE [r EXCEPT !.out = Return(default)]
get_secret_value(w, self, secret_name, key, default) ==
    LET r == get_secret(w, self, secret_name)
    IN  IF r.out.kind = "return"
        THEN IF r.out.value.t = "dict"
             THEN [r EXCEPT !.out = Return(dict_get(r.out.value.d, key, default))]
             ELSE [r EXCEPT !.out = Raise(AttributeError)]
        ELSE IF IsValueError(r.out.exc) \/ IsPermissionError(r.out.exc)
             THEN [r EXCEPT !.out = Return(default)]
             ELSE r

\* get_secrets_manager()
get_secrets_manager_always_new(w) ==
    LET c == SecretsManager_init(w)
    IN  IF c.out.kind = "return"
        THEN [w |-> [c.w EXCEPT !.sm = c.out.value], out |-> c.out, ctor |-> 1]
        ELSE [w |-> c.w, out |-> c.out, ctor |-> 1]
get_secrets_manager(w) ==
    IF w.sm = NoneRef
    THEN LET c == SecretsManager_init(w)
         IN  IF c.out.kind = "return"
             THEN [w |-> [c.w EXCEPT !.sm = c.out.value], out |-> c.out, ctor |-> 1]
             ELSE [w |-> c.w, out |-> c.out, ctor |-> 1]
    ELSE [w |-> w, out |-> Return(w.sm), ctor |-> 0]

\* the shared tail of both resolvers:
\*   try: return get_secrets_manager().get_secret_value(secret_name, key, default)
\*   except Exception: return default
resolve_remote_no_except(w, secret_name, key, default) ==
    LET m == get_secrets_manager(w)
    IN  IF m.out.kind = "raise"
        THEN [w |-> m.w, out |-> m.out, net |-> 0, ctor |-> m.ctor]
        ELSE LET r == get_secret_value(m.w, m.out.value, secret_name.s, key, default)
             IN  [w |-> r.w, out |-> r.out, net |-> r.net, ctor |-> m.ctor]
resolve_remote_retry(w, secret_name, key, default) ==
    LET m == get_secrets_manager(w)
    IN  IF m.out.kind = "raise"
        THEN [w |-> m.w, out |-> Return(default), net |-> 0, ctor |-> m.ctor]
        ELSE LET r == get_secret_value(m.w, m.out.value, secret_name.s, key, default)
                 again == get_secret_value(r.w, m.out.value, secret_name.s, key, default)
             IN  IF r.out.kind = "raise" \/ r.out.value = default
                 THEN [w |-> again.w,
                       out |-> IF again.out.kind = "raise" THEN Return(default)
                               ELSE again.out,
                       net |-> r.net + again.net, ctor |-> m.ctor]
                 ELSE [w |-> r.w, out |-> r.out, net |-> r.net, ctor |-> m.ctor]
resolve_remote(w, secret_name, key, default) ==
    LET m == get_secrets_manager(w)
    IN  IF m.out.kind = "raise"
        THEN [w |-> m.w, out |-> Return(default), net |-> 0, ctor |-> m.ctor]
        ELSE LET r == get_secret_value(m.w, m.out.value, secret_name.s, key, default)
             IN  [w |-> r.w,
                  out |-> IF r.out.kind = "raise" THEN Return(default) ELSE r.out,
                  net |-> r.net, ctor |-> m.ctor]

\* get_app_secret(key, default)
get_app_secret_env_last(w, key, default) ==
    LET env_value == getenv(upper(key), None)
        r == resolve_remote(w, getenv("APP_SECRETS_NAME", Str("FastAPIAppSecrets")),
                            key, default)
    IN  IF r.out.value = default /\ Truthy(env_value)
        THEN [r EXCEPT !.out = Return(env_value)]
        ELSE r
get_app_secret_env_if_set(w, key, default) ==
    LET env_value == getenv(upper(key), None)
    IN  IF env_value # None
        THEN [w |-> w, out |-> Return(env_value), net |-> 0, ctor |-> 0]
        ELSE resolve_remote(w, getenv("APP_SECRETS_NAME", Str("FastAPIAppSecrets")),
                            key, default)
get_app_secret(w, key, default) ==
    LET env_value == getenv(upper(key), None)
    IN  IF Truthy(env_value)
        THEN [w |-> w, out |-> Return(env_value), net |-> 0, ctor |-> 0]
        ELSE resolve_remote(w, getenv("APP_SECRETS_NAME", Str("FastAPIAppSecrets")),
                            key, default)

\* get_deployment_secret(key, default)
get_deployment_secret_app_variable(w, key, default) ==
    resolve_remote(w, getenv("APP_SECRETS_NAME", Str("FastAPIDeploymentSecrets")),
                   key, default)
get_deployment_secret(w, key, default) ==
    resolve_remote(w, getenv("DEPLOYMENT_SECRETS_NAME", Str("FastAPIDeploymentSecrets")),
                   key, default)

------------------------------------------------------------------------------
(* Settings (app/config.py)                                                *)

Bool(b) == [t |-> "bool", b |-> b]

\* str(v) of the value handed to the field validator
py_str(v) == IF v.t = "str" THEN v.s ELSE IF v.b THEN "True" ELSE "False"

\* str.lower() on the values of USE_SECRETS_MANAGER in use
lower(s) ==
    CASE s = "Yes" -> "yes"
      [] s = "YES" -> "yes"
      [] s = "On" -> "on"
      [] s = "TRUE" -> "true"
      [] s = "True" -> "true"
      [] s = "False" -> "false"
      [] OTHER -> s

\* Settings.check_ec2_environment(v), the "before" validator of
\* use_secrets_manager; pydantic-settings also runs it on the default
check_ec2_environment(v) ==
    IF marker
    THEN TRUE
    ELSE lower(getenv("USE_SECRETS_MANAGER", Str(py_str(v))).s) \in {"true", "1", "yes"}

\* Settings() that would not hand a field's default to its validator
Settings_init_default_unvalidated ==
    [use_secrets_manager |->
        IF "USE_SECRETS_MANAGER" \in DOMAIN env
        THEN check_ec2_environment(Str(env["USE_SECRETS_MANAGER"]))
        ELSE FALSE,
     environment |-> getenv("ENVIRONMENT", Str("development")),
     db_password |-> getenv("DB_PASSWORD", None),
     jwt_secret |-> getenv("JWT_SECRET", None),
     api_keys |-> getenv("API_KEYS", None)]
\* Settings(): the fields are read from the environment, else their defaults
Settings_init ==
    [use_secrets_manager |->
        check_ec2_environment(getenv("USE_SECRETS_MANAGER", Bool(FALSE))),
     environment |-> getenv("ENVIRONMENT", Str("development")),
     db_password |-> getenv("DB_PASSWORD", None),
     jwt_secret |-> getenv("JWT_SECRET", None),
     api_keys |-> getenv("API_KEYS", None)]

\* one assignment of load_from_secrets_manager,
\*   self.<field> = get_app_secret("<field>", self.<field>),
\* given the resolver's result r; a holds the state reached so far.  An
\* exception out of the resolver ends the try block with a warning printed.
AssignField(a, field, r) ==
    IF r.out.kind = "raise"
    THEN [a EXCEPT !.w = r.w, !.net = @ + r.net, !.ctor = @ + r.ctor, !.warned = TRUE]
    ELSE [a EXCEPT !.w = r.w, !.net = @ + r.net, !.ctor = @ + r.ctor,
                   !.obj[field] = r.out.value]

\* the assignment with None in place of the field's value as the default
ResolveField_default_none(a, field) ==
    IF a.warned
    THEN a
    ELSE CHOOSE res \in { AssignField(a, field, r) :
                            r \in {get_app_secret(a.w, field, None)} } : TRUE
ResolveField(a, field) ==
    IF a.warned
    THEN a
    ELSE CHOOSE res \in { AssignField(a, field, r) :
                            r \in {get_app_secret(a.w, field, a.obj[field])} } : TRUE

LoadField(acc, field) == CHOOSE res \in { ResolveField(a, field) : a \in {acc} } : TRUE

\* Settings.load_from_secrets_manager(self) on the object obj
load_from_secrets_manager_unconditional(w, obj) ==
    LoadField(
        LoadField(
            LoadField([w |-> w, obj |-> obj, net |-> 0, ctor |-> 0,
                       warned |-> FALSE], "db_password"),
            "jwt_secret"),
        "api_keys")
load_from_secrets_manager(w, obj) ==
    IF ~obj.use_secrets_manager
    THEN [w |-> w, obj |-> obj, net |-> 0, ctor |-> 0, warned |-> FALSE]
    ELSE LoadField(
             LoadField(
                 LoadField([w |-> w, obj |-> obj, net |-> 0, ctor |-> 0,
                            warned |-> FALSE], "db_password"),
                 "jwt_secret"),
             "api_keys")

\* get_settings() with an empty cache: settings = Settings();
\* settings.load_from_secrets_manager(); the object is stored and returned
BuildSettings(objs, l) ==
    [w |-> l.w, objs |-> Append(objs, l.obj), cached |-> Len(objs) + 1,
     out |-> Return(Ref(Len(objs) + 1)), net |-> l.net, ctor |-> l.ctor,
     built |-> 1, warned |-> l.warned]

\* get_settings() under @lru_cache(): the first call builds a Settings, loads
\* the secrets into it and stores it; later calls return the stored object.
\* objs and cached are the Settings built so far and the cache's content.
get_settings_no_cache(w, objs, cached) ==
    CHOOSE res \in { BuildSettings(objs, l) :
                       l \in {load_from_secrets_manager(w, Settings_init)} } : TRUE
get_settings(w, objs, cached) ==
    IF cached # NoneRef
    THEN [w |-> w, objs |-> objs, cached |-> cached, out |-> Return(Ref(cached)),
          net |-> 0, ctor |-> 0, built |-> 0, warned |-> FALSE]
    ELSE CHOOSE res \in { BuildSettings(objs, l) :
                            l \in {load_from_secrets_manager(w, Settings_init)} } : TRUE

------------------------------------------------------------------------------
(* Bounds and input sets                                                   *)

MaxCalls == 2

Keys == {"jwt_secret", "Jwt_Secret", "db_password"}
Defaults == {None, Str("fallback")}

AppGroup == "FastAPIAppSecrets"
DeploymentGroup == "FastAPIDeploymentSecrets"
CustomGroup == "CustomAppSecrets"
Groups == {AppGroup, DeploymentGroup, CustomGroup}

SecretString(text) == Return([SecretString |-> text])
SecretBinary == Return([SecretBinary |-> "binary-data"])

\* what a group of the store can answer
Answers ==
    { SecretString(JsonObject(<<>>)),
      SecretString(JsonObject(<<<<"jwt_secret", "xyz">>>>)),
      SecretString(JsonObject(<<<<"jwt_secret", "old">>, <<"db_password", "pw">>,
                                <<"jwt_secret", "xyz">>>>)),
      SecretString(JsonArray(<<"xyz">>)),
      SecretString(JsonInvalid),
      SecretBinary,
      Raise(ClientError("ResourceNotFoundException")),
      Raise(ClientError("AccessDeniedException")),
      Raise(ClientError("ThrottlingException")),
      Raise(EndpointConnectionError) }

DeploymentAnswers ==
    { SecretString(JsonObject(<<<<"db_password", "deploy-pw">>>>)),
      Raise(ClientError("InternalServiceError")) }

CustomAnswers ==
    { SecretString(JsonObject(<<<<"jwt_secret", "custom">>>>)),
      Raise(ClientError("AccessDeniedException")) }

Envs ==
    { e1 @@ e2 :
        e1 \in { <<>>, "JWT_SECRET" :> "", "JWT_SECRET" :> "env-jwt-secret" },
        e2 \in { <<>>, "APP_SECRETS_NAME" :> CustomGroup } }

------------------------------------------------------------------------------
(* Calls                                                                   *)

\* no thread is inside a call
NoThreads == <<>>

\* net: requests sent by the call; ctor: SecretsManager() attempts made by it;
\* built: Settings objects built by it; warned: a warning was printed by it
\* item_id, item: the path parameter and the body of an HTTP request
NoCall == [op |-> "none", self |-> NoneRef, name |-> "", key |-> "",
           default |-> None, out |-> Return(None), net |-> 0, ctor |-> 0,
           built |-> 0, warned |-> FALSE, item_id |-> 0, item |-> None,
           value |-> ""]

\* the call's effects on the module state; a group's request count only grows
\* from below MaxCalls
Commit(w) ==
    /\ \A g \in DOMAIN w.netCalls :
          w.netCalls[g] > netCalls[g] => netCalls[g] < MaxCalls
    /\ instances' = w.instances
    /\ _secrets_manager' = w.sm
    /\ cache' = w.cache
    /\ netCalls' = w.netCalls

\* sm.get_secret(secret_name) on a SecretsManager object
GetSecret(self, secret_name) ==
    /\ self \in 1..Len(instances)
    /\ \E r \in {get_secret(World, self, secret_name)} :
           /\ Commit(r.w)
           /\ last' = [NoCall EXCEPT !.op = "get_secret", !.self = self,
                          !.name = secret_name, !.out = r.out, !.net = r.net]
    /\ UNCHANGED <<env, remote, boto3_ok, settingsVars, appVars>>

\* sm.get_secret_value(secret_name, key, default) on a SecretsManager object
GetSecretValue(self, secret_name, key, default) ==
    /\ self \in 1..Len(instances)
    /\ \E r \in {get_secret_value(World, self, secret_name, key, default)} :
           /\ Commit(r.w)
           /\ last' = [NoCall EXCEPT !.op = "get_secret_value", !.self = self,
                          !.name = secret_name, !.key = key, !.default = default,
                          !.out = r.out, !.net = r.net]
    /\ UNCHANGED <<env, remote, boto3_ok, settingsVars, appVars>>

\* get_secrets_manager() called on its own
GetSecretsManager ==
    /\ \E r \in {get_secrets_manager(World)} :
           /\ Commit(r.w)
           /\ last' = [NoCall EXCEPT !.op = "get_secrets_manager",
                          !.out = IF r.out.kind = "return"
                                  THEN Return(Ref(r.out.value)) ELSE r.out,
                          !.ctor = r.ctor]
    /\ UNCHANGED <<env, remote, boto3_ok, settingsVars, appVars>>

GetAppSecret(key, default) ==
    /\ \E r \in {get_app_secret(World, key, default)} :
           /\ Commit(r.w)
           /\ last' = [NoCall EXCEPT !.op = "get_app_secret", !.key = key,
                          !.default = default, !.out = r.out, !.net = r.net,
                          !.ctor = r.ctor]
    /\ UNCHANGED <<env, remote, boto3_ok, settingsVars, appVars>>

GetDeploymentSecret(key, default) ==
    /\ \E r \in {get_deployment_secret(World, key, default)} :
           /\ Commit(r.w)
           /\ last' = [NoCall EXCEPT !.op = "get_deployment_secret", !.key = key,
                          !.default = default, !.out = r.out, !.net = r.net,
                          !.ctor = r.ctor]
    /\ UNCHANGED <<env, remote, boto3_ok, settingsVars, appVars>>

------------------------------------------------------------------------------
(* The resolvers and the store client of one process, over every           *)
(* environment and every state of the store                                *)

Init ==
    /\ env \in Envs
    /\ remote \in { (AppGroup :> a) @@ (DeploymentGroup :> d) @@ (CustomGroup :> c) :
                      a \in Answers, d \in DeploymentAnswers, c \in CustomAnswers }
    /\ boto3_ok \in BOOLEAN
    /\ instances = <<>>
    /\ _secrets_manager = NoneRef
    /\ cache = <<>>
    /\ netCalls = [g \in Groups |-> 0]
    /\ marker = FALSE
    /\ settings_objs = <<>>
    /\ settings_cache = NoneRef
    /\ main_settings = NoneRef
    /\ posted = <<>>
    /\ threads = NoThreads
    /\ cli = <<>>
    /\ last = NoCall

CallGetSecret == \E self \in 1..Len(instances), g \in Groups : GetSecret(self, g)
CallGetSecretValue ==
    \E self \in 1..Len(instances), g \in Groups, k \in Keys, d \in Defaults :
        GetSecretValue(self, g, k, d)
CallGetAppSecret == \E k \in Keys, d \in Defaults : GetAppSecret(k, d)
CallGetDeploymentSecret == \E k \in Keys, d \in Defaults : GetDeploymentSecret(k, d)

Next ==
    \/ GetSecretsManager
    \/ CallGetSecret
    \/ CallGetSecretValue
    \/ CallGetAppSecret
    \/ CallGetDeploymentSecret

Spec == Init /\ [][Next]_vars

------------------------------------------------------------------------------
(* The lru cache over many group names.  Both resolvers are pointed at the  *)
(* application group, which is looked up again and again while the store's *)
(* content for it changes; so many other groups are looked up, each one    *)
(* once and in a fixed order, that the cache overflows.                    *)

NumCold == 32

ColdName(i) == "cold-" \o ToString(i)
ColdNames == {ColdName(i) : i \in 1..NumCold}
LruNames == {AppGroup} \cup ColdNames

Rotated == SecretString(JsonObject(<<<<"jwt_secret", "rotated">>>>))
HotAnswers ==
    { SecretString(JsonObject(<<<<"jwt_secret", "xyz">>>>)),
      Rotated,
      Raise(ClientError("ResourceNotFoundException")) }

\* the next group name that has not been looked up yet
NextCold == Cardinality({i \in 1..NumCold : netCalls[ColdName(i)] > 0}) + 1

\* the store's content for a group changes (a write by somebody else)
RemoteChange(secret_name, answer) ==
    /\ remote[secret_name] # answer
    /\ remote' = [remote EXCEPT ![secret_name] = answer]
    /\ UNCHANGED <<env, boto3_ok, instances, _secrets_manager, cache, netCalls,
                   settingsVars, appVars, last>>

\* SecretsManager.get_secret.cache_clear(): the explicit reset of the cache
SecretCacheClear ==
    /\ cache # <<>>
    /\ cache' = <<>>
    /\ last' = [NoCall EXCEPT !.op = "cache_clear"]
    /\ UNCHANGED <<env, remote, boto3_ok, instances, _secrets_manager, netCalls,
                   settingsVars, appVars>>

InitLru ==
    /\ env = ("DEPLOYMENT_SECRETS_NAME" :> AppGroup)
    /\ remote \in { [g \in LruNames |->
                        IF g = AppGroup THEN a ELSE SecretString(JsonObject(<<>>))] :
                    a \in HotAnswers }
    /\ boto3_ok = TRUE
    /\ instances = <<>>
    /\ _secrets_manager = NoneRef
    /\ cache = <<>>
    /\ netCalls = [g \in LruNames |-> 0]
    /\ marker = FALSE
    /\ settings_objs = <<>>
    /\ settings_cache = NoneRef
    /\ main_settings = NoneRef
    /\ posted = <<>>
    /\ threads = NoThreads
    /\ cli = <<>>
    /\ last = NoCall

LookupHot == \E self \in 1..Len(instances) : GetSecret(self, AppGroup)
LookupHotValue ==
    \E self \in 1..Len(instances) :
        GetSecretValue(self, AppGroup, "jwt_secret", Str("fallback"))
LookupCold ==
    /\ NextCold <= NumCold
    /\ \E self \in 1..Len(instances) : GetSecret(self, ColdName(NextCold))
ResolveApp == GetAppSecret("jwt_secret", Str("fallback"))
ResolveDeployment == GetDeploymentSecret("jwt_secret", Str("fallback"))
StoreWrite == \E a \in HotAnswers : RemoteChange(AppGroup, a)

NextLru ==
    \/ GetSecretsManager
    \/ LookupHot
    \/ LookupHotValue
    \/ LookupCold
    \/ ResolveApp
    \/ ResolveDeployment
    \/ StoreWrite
    \/ SecretCacheClear

SpecLru == InitLru /\ [][NextLru]_vars

------------------------------------------------------------------------------
(* Settings bootstrap: get_settings() and the reset of its cache, while    *)
(* the environment and the store change between the calls.                 *)

MaxSettings == 2

Throttled == Raise(ClientError("ThrottlingException"))
SettingsAnswers ==
    { SecretString(JsonObject(<<<<"jwt_secret", "xyz">>>>)),
      Throttled,
      Raise(ClientError("ResourceNotFoundException")),
      Raise(ClientError("AccessDeniedException")),
      Raise(EndpointConnectionError) }

\* changes of os.environ between two calls
UseSecretsManagerValues == {"Yes", "TRUE", "1", "On", "false", ""}
EnvChanges ==
    { [name |-> "JWT_SECRET", value |-> "env-jwt-secret"],
      [name |-> "JWT_SECRET", value |-> ""] }
    \cup { [name |-> "USE_SECRETS_MANAGER", value |-> v] : v \in UseSecretsManagerValues }

\* os.environ[name] = value
SetEnv(name, value) ==
    /\ IF name \in DOMAIN env THEN env[name] # value ELSE TRUE
    /\ env' = [n \in DOMAIN env \cup {name} |-> IF n = name THEN value ELSE env[n]]
    /\ UNCHANGED <<remote, boto3_ok, instances, _secrets_manager, cache, netCalls,
                   settingsVars, appVars, last>>

\* del os.environ[name]
UnsetEnv(name) ==
    /\ name \in DOMAIN env
    /\ env' = [n \in DOMAIN env \ {name} |-> env[n]]
    /\ UNCHANGED <<remote, boto3_ok, instances, _secrets_manager, cache, netCalls,
                   settingsVars, appVars, last>>

\* get_settings()
GetSettings ==
    /\ settings_cache = NoneRef => Len(settings_objs) < MaxSettings
    /\ \E r \in {get_settings(World, settings_objs, settings_cache)} :
           /\ Commit(r.w)
           /\ settings_objs' = r.objs
           /\ settings_cache' = r.cached
           /\ last' = [NoCall EXCEPT !.op = "get_settings", !.out = r.out,
                          !.net = r.net, !.ctor = r.ctor, !.built = r.built,
                          !.warned = r.warned]
    /\ UNCHANGED <<env, remote, boto3_ok, marker, appVars>>

\* get_settings.cache_clear(): the explicit reset of the Settings cache
SettingsCacheClear ==
    /\ settings_cache # NoneRef
    /\ settings_cache' = NoneRef
    /\ last' = [NoCall EXCEPT !.op = "settings_cache_clear"]
    /\ UNCHANGED <<env, remote, boto3_ok, instances, _secrets_manager, cache, netCalls,
                   marker, settings_objs, appVars>>

\* settings.load_from_secrets_manager() called on the object that
\* get_settings() has cached; the method assigns to the fields of self
LoadFromSecretsManager ==
    /\ settings_cache # NoneRef
    /\ \E l \in {load_from_secrets_manager(World, settings_objs[settings_cache])} :
           /\ Commit(l.w)
           /\ settings_objs' = [settings_objs EXCEPT ![settings_cache] = l.obj]
           /\ last' = [NoCall EXCEPT !.op = "load_from_secrets_manager",
                          !.self = settings_cache, !.net = l.net, !.ctor = l.ctor,
                          !.warned = l.warned]
    /\ UNCHANGED <<env, remote, boto3_ok, marker, settings_cache, appVars>>

InitSettings ==
    /\ env = <<>>
    /\ remote \in { [g \in {AppGroup} |-> a] : a \in SettingsAnswers }
    /\ boto3_ok \in BOOLEAN
    /\ marker \in BOOLEAN
    /\ instances = <<>>
    /\ _secrets_manager = NoneRef
    /\ cache = <<>>
    /\ netCalls = [g \in {AppGroup} |-> 0]
    /\ settings_objs = <<>>
    /\ settings_cache = NoneRef
    /\ main_settings = NoneRef
    /\ posted = <<>>
    /\ threads = NoThreads
    /\ cli = <<>>
    /\ last = NoCall

EnvSet == \E c \in EnvChanges : SetEnv(c.name, c.value)
EnvUnset == \E c \in EnvChanges : UnsetEnv(c.name)
SettingsStoreWrite == \E a \in SettingsAnswers : RemoteChange(AppGroup, a)

NextSettings ==
    \/ GetSettings
    \/ SettingsCacheClear
    \/ LoadFromSecretsManager
    \/ EnvSet
    \/ EnvUnset
    \/ SettingsStoreWrite

SpecSettings == InitSettings /\ [][NextSettings]_vars

------------------------------------------------------------------------------
(* The group names the resolvers ask for: every setting of the two         *)
(* variables that name a group, and a store in which each group either     *)
(* exists, holding a value that tells it from the others, or does not.     *)

CustomDeployGroup == "CustomDeploySecrets"
PlainAppGroup == "AppSecrets"
PlainDeploymentGroup == "DeploymentSecrets"
NameGroups ==
    {AppGroup, DeploymentGroup, CustomGroup, CustomDeployGroup, PlainAppGroup,
     PlainDeploymentGroup}

\* the value of jwt_secret in the group g, when the group exists
ValueIn(g) == IF g = PlainAppGroup THEN "xyz" ELSE "jwt-of-" \o g
Holding(g) == SecretString(JsonObject(<<<<"jwt_secret", ValueIn(g)>>>>))
NoSuchGroup == Raise(ClientError("ResourceNotFoundException"))

NameEnvs ==
    { e1 @@ e2 :
        e1 \in { <<>>, "APP_SECRETS_NAME" :> CustomGroup },
        e2 \in { <<>>, "DEPLOYMENT_SECRETS_NAME" :> CustomDeployGroup } }

InitNames ==
    /\ env \in NameEnvs
    /\ remote \in { [g \in NameGroups |-> IF g \in present THEN Holding(g) ELSE NoSuchGroup] :
                      present \in SUBSET NameGroups }
    /\ boto3_ok = TRUE
    /\ instances = <<>>
    /\ _secrets_manager = NoneRef
    /\ cache = <<>>
    /\ netCalls = [g \in NameGroups |-> 0]
    /\ marker = FALSE
    /\ settings_objs = <<>>
    /\ settings_cache = NoneRef
    /\ main_settings = NoneRef
    /\ posted = <<>>
    /\ threads = NoThreads
    /\ cli = <<>>
    /\ last = NoCall

NextNames ==
    \/ CallGetAppSecret
    \/ CallGetDeploymentSecret

SpecNames == InitNames /\ [][NextNames]_vars

------------------------------------------------------------------------------
(* The HTTP surface: app/main.py binds settings = get_settings() when it   *)
(* is imported and mounts the router of app/api/routes.py under /api/v1;   *)
(* after that the handlers answer requests.                                *)

MaxItemId == 102
MaxPosts == 2

\* the ids asked for: around zero, around the limit of get_item, and far
\* below zero
ItemIds == {0 - MaxItemId} \cup (-1..1) \cup ((MaxItemId - 4)..MaxItemId)
Payloads ==
    { [name |-> "Sample Item"],
      [id |-> 1, name |-> "Item 1"],
      [id |-> 150, name |-> "Sample Item", description |-> "A sample test item"] }

Response(status_code, body) == [status_code |-> status_code, body |-> body]
\* raise HTTPException(status_code=..., detail=...), as FastAPI answers it
HTTPException(status_code, detail) == Response(status_code, [detail |-> detail])

FixedItems ==
    << [id |-> 1, name |-> "Item 1", version |-> "1.0"],
       [id |-> 2, name |-> "Item 2", version |-> "1.0"],
       [id |-> 3, name |-> "Test Item", version |-> "1.0"] >>

\* routes.get_items()
get_items_with_posted ==
    Response(200, [items |-> FixedItems \o posted, api_version |-> "v1",
                   total |-> 3 + Len(posted)])
get_items == Response(200, [items |-> FixedItems, api_version |-> "v1", total |-> 3])

\* routes.get_item(item_id)
get_item_from_100(item_id) ==
    IF item_id >= 100
    THEN HTTPException(404, "Item not found")
    ELSE Response(200, [id |-> item_id, name |-> "Item " \o ToString(item_id),
                        version |-> "1.0", api_version |-> "v1"])
get_item(item_id) ==
    IF item_id > 100
    THEN HTTPException(404, "Item not found")
    ELSE Response(200, [id |-> item_id, name |-> "Item " \o ToString(item_id),
                        version |-> "1.0", api_version |-> "v1"])

\* routes.create_item(item)
create_item(item) == Response(200, [message |-> "Item created", item |-> item])

\* main.root(), reading the module's settings object
root_with_secrets(settings) ==
    Response(200, [message |-> "Welcome to FastAPI AWS App with PR Checks",
                   environment |-> settings.environment.s,
                   version |-> "1.1.0",
                   api_version |-> "v1",
                   features |-> <<"API versioning", "Containerized deployment">>,
                   jwt_secret |-> settings.jwt_secret])
root(settings) ==
    Response(200, [message |-> "Welcome to FastAPI AWS App with PR Checks",
                   environment |-> settings.environment.s,
                   version |-> "1.1.0",
                   api_version |-> "v1",
                   features |-> <<"API versioning", "Containerized deployment">>])

\* main.health_check()
health_check == Response(200, [status |-> "healthy"])

\* import app.main: settings = get_settings()
ImportMain ==
    /\ main_settings = NoneRef
    /\ \E r \in {get_settings(World, settings_objs, settings_cache)} :
           /\ Commit(r.w)
           /\ settings_objs' = r.objs
           /\ settings_cache' = r.cached
           /\ main_settings' = r.out.value.id
           /\ last' = [NoCall EXCEPT !.op = "import app.main", !.out = r.out,
                          !.net = r.net, !.ctor = r.ctor, !.built = r.built,
                          !.warned = r.warned]
    /\ UNCHANGED <<env, remote, boto3_ok, marker, posted, threads, cli>>

\* a request answered by the application
Serve(op, item_id, item, response) ==
    /\ main_settings # NoneRef
    /\ last' = [NoCall EXCEPT !.op = op, !.item_id = item_id, !.item = item,
                   !.out = Return(response)]
    /\ UNCHANGED <<env, remote, boto3_ok, instances, _secrets_manager, cache, netCalls,
                   settingsVars, main_settings, threads, cli>>

GetRoot ==
    /\ Serve("GET /", 0, None, root(settings_objs[main_settings]))
    /\ UNCHANGED posted
\* a health check that would read a secret while answering
GetHealth_resolving ==
    /\ main_settings # NoneRef
    /\ \E r \in {get_app_secret(World, "jwt_secret", None)} :
           /\ Commit(r.w)
           /\ last' = [NoCall EXCEPT !.op = "GET /health", !.out = Return(health_check),
                          !.net = r.net, !.ctor = r.ctor]
    /\ UNCHANGED <<env, remote, boto3_ok, settingsVars, appVars>>
GetHealth ==
    /\ Serve("GET /health", 0, None, health_check)
    /\ UNCHANGED posted
GetItems ==
    /\ Serve("GET /api/v1/items", 0, None, get_items)
    /\ UNCHANGED posted
GetItem ==
    /\ \E item_id \in ItemIds :
           Serve("GET /api/v1/items/{item_id}", item_id, None, get_item(item_id))
    /\ UNCHANGED posted
PostItem ==
    /\ Len(posted) < MaxPosts
    /\ \E item \in Payloads :
           /\ Serve("POST /api/v1/items", 0, item, create_item(item))
           /\ posted' = Append(posted, item)

HttpAnswers ==
    { SecretString(JsonObject(<<<<"jwt_secret", "xyz">>>>)),
      Throttled,
      Raise(EndpointConnectionError) }

HttpEnvs ==
    { e1 @@ e2 :
        e1 \in { <<>>, "ENVIRONMENT" :> "production" },
        e2 \in { <<>>, "USE_SECRETS_MANAGER" :> "TRUE" } }

InitHttp ==
    /\ env \in HttpEnvs
    /\ remote \in { [g \in {AppGroup} |-> a] : a \in HttpAnswers }
    /\ boto3_ok \in BOOLEAN
    /\ marker = FALSE
    /\ instances = <<>>
    /\ _secrets_manager = NoneRef
    /\ cache = <<>>
    /\ netCalls = [g \in {AppGroup} |-> 0]
    /\ settings_objs = <<>>
    /\ settings_cache = NoneRef
    /\ main_settings = NoneRef
    /\ posted = <<>>
    /\ threads = NoThreads
    /\ cli = <<>>
    /\ last = NoCall

NextHttp ==
    \/ ImportMain
    \/ GetRoot
    \/ GetHealth
    \/ GetItems
    \/ GetItem
    \/ PostItem

SpecHttp == InitHttp /\ [][NextHttp]_vars

------------------------------------------------------------------------------
(* Threads.  Each thread calls get_app_secret("jwt_secret", "fallback")    *)
(* once; the interpreter may switch threads between the steps below: the   *)
(* test and the assignment of the global in get_secrets_manager, its       *)
(* return, the lookup in the lru cache, the request to the store made by   *)
(* the body of get_secret, and the insertion of the result in the cache.   *)

NumThreads == 2
Threads == 1..NumThreads

ThreadKey == "jwt_secret"
ThreadDefault == Str("fallback")
ThreadGroup == getenv("APP_SECRETS_NAME", Str("FastAPIAppSecrets")).s

\* pc: the step the thread takes next; m: the object get_secrets_manager()
\* returned to it; fetched: what the body of get_secret returned or raised;
\* out: what get_app_secret returned
IdleThread == [pc |-> "call", m |-> NoneRef, fetched |-> Return(None), out |-> Return(None),
               net |-> 0]

\* the resolver's value for the outcome of m.get_secret(secret_name):
\* get_secret_value looks the key up, the resolver turns every error into
\* the default
ResolvedValue(outcome, key, default) ==
    IF outcome.kind = "return" /\ outcome.value.t = "dict"
    THEN Return(dict_get(outcome.value.d, key, default))
    ELSE Return(default)

ThreadFrame ==
    UNCHANGED <<env, remote, boto3_ok, settingsVars, main_settings, posted, cli, last>>

\* env_value = os.getenv(key.upper()); if env_value: return env_value;
\* then get_secrets_manager(): if _secrets_manager is None
TestGlobal(t) ==
    /\ threads[t].pc = "call"
    /\ threads' = [threads EXCEPT ![t] =
          IF Truthy(getenv(upper(ThreadKey), None))
          THEN [@ EXCEPT !.pc = "done", !.out = Return(getenv(upper(ThreadKey), None))]
          ELSE IF _secrets_manager = NoneRef
               THEN [@ EXCEPT !.pc = "construct"]
               ELSE [@ EXCEPT !.pc = "return"]]
    /\ UNCHANGED <<instances, _secrets_manager, cache, netCalls>>
    /\ ThreadFrame

\* _secrets_manager = SecretsManager()
AssignGlobal(t) ==
    /\ threads[t].pc = "construct"
    /\ \E c \in {SecretsManager_init(World)} :
           IF c.out.kind = "return"
           THEN /\ instances' = c.w.instances
                /\ _secrets_manager' = c.out.value
                /\ threads' = [threads EXCEPT ![t].pc = "return"]
           ELSE /\ UNCHANGED <<instances, _secrets_manager>>
                /\ threads' = [threads EXCEPT ![t].pc = "done",
                                               ![t].out = Return(ThreadDefault)]
    /\ UNCHANGED <<cache, netCalls>>
    /\ ThreadFrame

\* return _secrets_manager
ReturnGlobal(t) ==
    /\ threads[t].pc = "return"
    /\ threads' = [threads EXCEPT ![t].pc = "lookup", ![t].m = _secrets_manager]
    /\ UNCHANGED <<instances, _secrets_manager, cache, netCalls>>
    /\ ThreadFrame

\* the lru_cache wrapper of get_secret looks (self, secret_name) up
CacheLookup(t) ==
    /\ threads[t].pc = "lookup"
    /\ LET i == CacheIndex(cache, <<threads[t].m, ThreadGroup>>)
       IN  IF i > 0
           THEN /\ cache' = Append(RemoveAt(cache, i), cache[i])
                /\ threads' = [threads EXCEPT ![t].pc = "done",
                      ![t].out = ResolvedValue(Return(cache[i].value), ThreadKey,
                                               ThreadDefault)]
           ELSE /\ cache' = cache
                /\ threads' = [threads EXCEPT ![t].pc = "fetch"]
    /\ UNCHANGED <<instances, _secrets_manager, netCalls>>
    /\ ThreadFrame

\* the body of get_secret: self.client.get_secret_value(SecretId=secret_name)
\* and the decoding of the response
Fetch(t) ==
    /\ threads[t].pc = "fetch"
    /\ netCalls' = [netCalls EXCEPT ![ThreadGroup] = @ + 1]
    /\ threads' = [threads EXCEPT ![t].pc = "store", ![t].net = 1,
                      ![t].fetched = get_secret_body(ThreadGroup, remote[ThreadGroup])]
    /\ UNCHANGED <<instances, _secrets_manager, cache>>
    /\ ThreadFrame

\* the lru_cache wrapper after the body: a result that was returned is
\* inserted unless the key has been inserted meanwhile; an exception is not
CacheInsert(t) ==
    /\ threads[t].pc = "store"
    /\ LET key == <<threads[t].m, ThreadGroup>>
           fetched == threads[t].fetched
       IN  /\ cache' = IF fetched.kind = "return" /\ CacheIndex(cache, key) = 0
                       THEN CacheStore(cache, key, fetched.value)
                       ELSE cache
           /\ threads' = [threads EXCEPT ![t].pc = "done",
                 ![t].out = ResolvedValue(fetched, ThreadKey, ThreadDefault)]
    /\ UNCHANGED <<instances, _secrets_manager, netCalls>>
    /\ ThreadFrame

InitRace ==
    /\ env = <<>>
    /\ remote \in { [g \in {AppGroup} |-> a] : a \in HotAnswers }
    /\ boto3_ok = TRUE
    /\ instances = <<>>
    /\ _secrets_manager = NoneRef
    /\ cache = <<>>
    /\ netCalls = [g \in {AppGroup} |-> 0]
    /\ marker = FALSE
    /\ settings_objs = <<>>
    /\ settings_cache = NoneRef
    /\ main_settings = NoneRef
    /\ posted = <<>>
    /\ threads = [t \in Threads |-> IdleThread]
    /\ cli = <<>>
    /\ last = NoCall

ThreadTestGlobal == \E t \in Threads : TestGlobal(t)
ThreadAssignGlobal == \E t \in Threads : AssignGlobal(t)
ThreadReturnGlobal == \E t \in Threads : ReturnGlobal(t)
ThreadCacheLookup == \E t \in Threads : CacheLookup(t)
ThreadFetch == \E t \in Threads : Fetch(t)
ThreadCacheInsert == \E t \in Threads : CacheInsert(t)
RaceStoreWrite == \E a \in HotAnswers : RemoteChange(AppGroup, a)
\* a lookup made after the threads have completed
LaterLookup ==
    /\ \A t \in Threads : threads[t].pc = "done"
    /\ GetAppSecret(ThreadKey, ThreadDefault)

NextRace ==
    \/ ThreadTestGlobal
    \/ ThreadAssignGlobal
    \/ ThreadReturnGlobal
    \/ ThreadCacheLookup
    \/ ThreadFetch
    \/ ThreadCacheInsert
    \/ RaceStoreWrite
    \/ LaterLookup

SpecRace == InitRace /\ [][NextRace]_vars

------------------------------------------------------------------------------
(* Failure and recovery: calls made one after the other in one process     *)
(* while the store's answer for the application group changes and while    *)
(* building the boto3 client starts or stops failing.                      *)

RecoverKeys == {"jwt_secret", "db_password"}

\* boto3.client("secretsmanager", ...) starts or stops raising
Boto3Change ==
    /\ boto3_ok' = ~boto3_ok
    /\ UNCHANGED <<env, remote, instances, _secrets_manager, cache, netCalls,
                   settingsVars, appVars, last>>

RecoverStoreWrite == \E a \in Answers : RemoteChange(AppGroup, a)
RecoverLookup == \E self \in 1..Len(instances) : GetSecret(self, AppGroup)
RecoverResolve == \E key \in RecoverKeys : GetAppSecret(key, Str("fallback"))

InitRecover ==
    /\ env = <<>>
    /\ remote \in { [g \in {AppGroup} |-> a] : a \in Answers }
    /\ boto3_ok \in BOOLEAN
    /\ instances = <<>>
    /\ _secrets_manager = NoneRef
    /\ cache = <<>>
    /\ netCalls = [g \in {AppGroup} |-> 0]
    /\ marker = FALSE
    /\ settings_objs = <<>>
    /\ settings_cache = NoneRef
    /\ main_settings = NoneRef
    /\ posted = <<>>
    /\ threads = NoThreads
    /\ cli = <<>>
    /\ last = NoCall

NextRecover ==
    \/ GetSecretsManager
    \/ RecoverLookup
    \/ RecoverResolve
    \/ RecoverStoreWrite
    \/ Boto3Change

SpecRecover == InitRecover /\ [][NextRecover]_vars

------------------------------------------------------------------------------
(* The command-line tool, scripts/manage_secrets.py.  One invocation is    *)
(* one process; the store is all that invocations share.  A Python dict is *)
(* kept as the sequence of its <<key, value>> pairs in insertion order.    *)

\* d[key] = value on a dict: a present key keeps its place
dict_setitem(d, key, value) ==
    IF \E i \in 1..Len(d) : d[i][1] = key
    THEN [i \in 1..Len(d) |-> IF d[i][1] = key THEN <<key, value>> ELSE d[i]]
    ELSE Append(d, <<key, value>>)

\* the dict json.loads builds from the members of a JSON object
RECURSIVE object_pairs(_)
object_pairs(members) ==
    IF members = <<>>
    THEN <<>>
    ELSE dict_setitem(object_pairs(SubSeq(members, 1, Len(members) - 1)),
                      members[Len(members)][1], members[Len(members)][2])

\* json.dumps(d) of a dict of strings
json_dumps(d) == JsonObject(d)

\* SecretsManagerCLI.get_secret(secret_name) against the store
cli_get_secret(store, secret_name) ==
    LET answer == store[secret_name]
    IN  IF answer.kind = "raise"
        THEN IF IsClientError(answer.exc)
                  /\ answer.exc.code = "ResourceNotFoundException"
             THEN Return([t |-> "dict", pairs |-> <<>>])
             ELSE answer
        ELSE IF "SecretString" \notin DOMAIN answer.value
             THEN Raise([type |-> "KeyError"])
             ELSE CASE answer.value.SecretString.form = "object" ->
                          Return([t |-> "dict",
                                  pairs |-> object_pairs(answer.value.SecretString.members)])
                    [] answer.value.SecretString.form = "array" ->
                          Return(List(answer.value.SecretString.items))
                    [] OTHER -> Raise(JSONDecodeError)

\* self.client.update_secret(SecretId=secret_name, SecretString=text)
client_update_secret(store, secret_name, text) ==
    IF store[secret_name].kind = "return"
    THEN [store |-> [store EXCEPT ![secret_name] = SecretString(text)],
          out |-> Return(None)]
    ELSE [store |-> store, out |-> store[secret_name]]

\* self.client.create_secret(Name=secret_name, SecretString=text)
client_create_secret(store, secret_name, text) ==
    IF store[secret_name] = Raise(ClientError("ResourceNotFoundException"))
    THEN [store |-> [store EXCEPT ![secret_name] = SecretString(text)],
          out |-> Return(None)]
    ELSE IF store[secret_name].kind = "return"
         THEN [store |-> store, out |-> Raise(ClientError("ResourceExistsException"))]
         ELSE [store |-> store, out |-> store[secret_name]]

\* SecretsManagerCLI.update_secret(secret_name, secret_dict)
cli_update_secret(store, secret_name, secret_dict) ==
    LET u == client_update_secret(store, secret_name, json_dumps(secret_dict))
    IN  IF /\ u.out.kind = "raise"
           /\ IsClientError(u.out.exc)
           /\ u.out.exc.code = "ResourceNotFoundException"
        THEN client_create_secret(store, secret_name, json_dumps(secret_dict))
        ELSE u

\* the body of set_app_secret and of set_deployment_secret on their group:
\*   secrets = self.get_secret(name); secrets[key] = value;
\*   self.update_secret(name, secrets)
\* out is Raise(e) when the command ends with the error e (main exits 1)
set_secret_fresh_dict(store, secret_name, key, value) ==
    cli_update_secret(store, secret_name, <<<<key, value>>>>)
set_secret(store, secret_name, key, value) ==
    LET secrets == cli_get_secret(store, secret_name)
    IN  IF secrets.kind = "raise"
        THEN [store |-> store, out |-> secrets]
        ELSE IF secrets.value.t # "dict"
             THEN [store |-> store, out |-> Raise([type |-> "TypeError"])]
             ELSE cli_update_secret(store, secret_name,
                                    dict_setitem(secrets.value.pairs, key, value))

\* what a group of the store holds when the tool is run
CliAnswers ==
    { Raise(ClientError("ResourceNotFoundException")),
      SecretString(JsonObject(<<>>)),
      SecretString(JsonObject(<<<<"jwt_secret", "old">>, <<"db_password", "pw">>>>)),
      SecretString(JsonObject(<<<<"jwt_secret", "old">>, <<"db_password", "pw">>,
                                <<"jwt_secret", "xyz">>>>)),
      SecretString(JsonArray(<<"xyz">>)),
      SecretString(JsonInvalid),
      SecretBinary,
      Raise(ClientError("AccessDeniedException")) }

CliKeys == <<"jwt_secret", "api_keys", "db_password", "session_key">>

\* manage_secrets.py set-app-secret KEY VALUE, run from start to end
SetAppSecret ==
    /\ \E key \in {CliKeys[1], CliKeys[2]}, value \in {"new", ""} :
         \E r \in {set_secret(remote, AppGroup, key, value)} :
           /\ remote' = r.store
           /\ last' = [NoCall EXCEPT !.op = "set_app_secret", !.name = AppGroup,
                          !.key = key, !.value = value, !.out = r.out]
    /\ UNCHANGED <<env, boto3_ok, instances, _secrets_manager, cache, netCalls,
                   settingsVars, appVars>>

\* manage_secrets.py set-deployment-secret KEY VALUE, run from start to end
SetDeploymentSecret ==
    /\ \E key \in {CliKeys[1], CliKeys[2]}, value \in {"new", ""} :
         \E r \in {set_secret(remote, DeploymentGroup, key, value)} :
           /\ remote' = r.store
           /\ last' = [NoCall EXCEPT !.op = "set_deployment_secret",
                          !.name = DeploymentGroup, !.key = key, !.value = value,
                          !.out = r.out]
    /\ UNCHANGED <<env, boto3_ok, instances, _secrets_manager, cache, netCalls,
                   settingsVars, appVars>>

InitCli ==
    /\ env = <<>>
    /\ remote \in [{AppGroup, DeploymentGroup} -> CliAnswers]
    /\ boto3_ok = TRUE
    /\ instances = <<>>
    /\ _secrets_manager = NoneRef
    /\ cache = <<>>
    /\ netCalls = [g \in {AppGroup, DeploymentGroup} |-> 0]
    /\ marker = FALSE
    /\ settings_objs = <<>>
    /\ settings_cache = NoneRef
    /\ main_settings = NoneRef
    /\ posted = <<>>
    /\ threads = NoThreads
    /\ cli = <<>>
    /\ last = NoCall

NextCli ==
    \/ SetAppSecret
    \/ SetDeploymentSecret

SpecCli == InitCli /\ [][NextCli]_vars

------------------------------------------------------------------------------
(* Invocations of set-app-secret that overlap.  Invocation i sets the key  *)
(* CliKeys[i]; between its requests to the store the other invocations may *)
(* send theirs.                                                            *)

NumCli == 2

\* secrets = self.get_secret(self.app_secret_name); secrets[key] = value
CliGet ==
    \E i \in 1..NumCli :
        /\ cli[i].pc = "get"
        /\ \E r \in {cli_get_secret(remote, AppGroup)} :
              cli' = [cli EXCEPT ![i] =
                        IF r.kind = "raise"
                        THEN [@ EXCEPT !.pc = "failed", !.out = r]
                        ELSE IF r.value.t # "dict"
                             THEN [@ EXCEPT !.pc = "failed",
                                            !.out = Raise([type |-> "TypeError"])]
                             ELSE [@ EXCEPT !.pc = "update",
                                            !.secrets = dict_setitem(r.value.pairs,
                                                                     CliKeys[i], "new")]]
        /\ UNCHANGED remote
        /\ UNCHANGED <<env, boto3_ok, instances, _secrets_manager, cache, netCalls,
                       settingsVars, main_settings, posted, threads, last>>

\* update_secret: self.client.update_secret(...)
CliUpdate ==
    \E i \in 1..NumCli :
        /\ cli[i].pc = "update"
        /\ \E u \in {client_update_secret(remote, AppGroup, json_dumps(cli[i].secrets))} :
              /\ remote' = u.store
              /\ cli' = [cli EXCEPT ![i] =
                           IF u.out.kind = "return"
                           THEN [@ EXCEPT !.pc = "done"]
                           ELSE IF /\ IsClientError(u.out.exc)
                                   /\ u.out.exc.code = "ResourceNotFoundException"
                                THEN [@ EXCEPT !.pc = "create"]
                                ELSE [@ EXCEPT !.pc = "failed", !.out = u.out]]
        /\ UNCHANGED <<env, boto3_ok, instances, _secrets_manager, cache, netCalls,
                       settingsVars, main_settings, posted, threads, last>>

\* update_secret, in the except branch: self.client.create_secret(...)
CliCreate ==
    \E i \in 1..NumCli :
        /\ cli[i].pc = "create"
        /\ \E c \in {client_create_secret(remote, AppGroup, json_dumps(cli[i].secrets))} :
              /\ remote' = c.store
              /\ cli' = [cli EXCEPT ![i] =
                           IF c.out.kind = "return"
                           THEN [@ EXCEPT !.pc = "done"]
                           ELSE [@ EXCEPT !.pc = "failed", !.out = c.out]]
        /\ UNCHANGED <<env, boto3_ok, instances, _secrets_manager, cache, netCalls,
                       settingsVars, main_settings, posted, threads, last>>

InitCliRace ==
    /\ env = <<>>
    /\ remote \in [{AppGroup, DeploymentGroup} -> CliAnswers]
    /\ boto3_ok = TRUE
    /\ instances = <<>>
    /\ _secrets_manager = NoneRef
    /\ cache = <<>>
    /\ netCalls = [g \in {AppGroup, DeploymentGroup} |-> 0]
    /\ marker = FALSE
    /\ settings_objs = <<>>
    /\ settings_cache = NoneRef
    /\ main_settings = NoneRef
    /\ posted = <<>>
    /\ threads = NoThreads
    /\ cli = [i \in 1..NumCli |->
                [pc |-> "get", secrets |-> <<>>, out |-> Return(None)]]
    /\ last = NoCall

NextCliRace ==
    \/ CliGet
    \/ CliUpdate
    \/ CliCreate

SpecCliRace == InitCliRace /\ [][NextCliRace]_vars

------------------------------------------------------------------------------
(* Properties of the resolvers and of the store client (Spec).  A step is  *)
(* the call recorded in last'; the unprimed variables are the state the    *)
(* call started from.                                                      *)

ResolverOps == {"get_app_secret", "get_deployment_secret"}

\* an environment override applies to key in a call of op
Override(op, key) ==
    /\ op = "get_app_secret"
    /\ upper(key) \in DOMAIN env
    /\ env[upper(key)] # ""

\* the group a resolver asks for
GroupAsked(op) ==
    IF op = "get_app_secret"
    THEN (IF "APP_SECRETS_NAME" \in DOMAIN env THEN env["APP_SECRETS_NAME"] ELSE AppGroup)
    ELSE (IF "DEPLOYMENT_SECRETS_NAME" \in DOMAIN env
          THEN env["DEPLOYMENT_SECRETS_NAME"] ELSE DeploymentGroup)

\* the store client a resolver would use cannot be had
NoClient == _secrets_manager = NoneRef /\ ~boto3_ok

\* the object a call on self would act on, for the resolvers the global one
ClientUsed(op, self) ==
    IF op \in ResolverOps
    THEN (IF _secrets_manager = NoneRef THEN Len(instances) + 1 ELSE _secrets_manager)
    ELSE self

CachedIn(c, self, name) == \E i \in 1..Len(c) : c[i].key = <<self, name>>
Cached(self, name) == CachedIn(cache, self, name)
CachedValue(self, name) ==
    cache[CHOOSE i \in 1..Len(cache) : cache[i].key = <<self, name>>].value

\* the store answers a request for name with a string-keyed JSON object
AnswersObject(name) ==
    /\ remote[name].kind = "return"
    /\ "SecretString" \in DOMAIN remote[name].value
    /\ remote[name].value.SecretString.form = "object"

\* the mapping that JSON object text denotes: the last member of a key wins
MappingOf(members) ==
    LET Has(k) == {i \in 1..Len(members) : members[i][1] = k}
        Top(S) == CHOOSE i \in S : \A j \in S : j <= i
    IN  [k \in {members[i][1] : i \in 1..Len(members)} |-> members[Top(Has(k))][2]]

\* the mapping a lookup of name on self obtains, when it obtains one
MappingFetched(self, name) ==
    IF Cached(self, name)
    THEN CachedValue(self, name).d
    ELSE MappingOf(remote[name].value.SecretString.members)

FetchSucceeds(self, name) ==
    IF Cached(self, name) THEN CachedValue(self, name).t = "dict" ELSE AnswersObject(name)

\* C1: get_app_secret and get_deployment_secret never raise: whatever the
\* store answers and whether or not the client can be built, the call returns
\* a value, and when the lookup fails and no environment override applies to
\* the key, that value is the default.
C1_ResolversNeverRaise ==
    [][ last'.op \in ResolverOps =>
          /\ last'.out.kind = "return"
          /\ ( /\ ~Override(last'.op, last'.key)
               /\ \/ NoClient
                  \/ ~FetchSucceeds(ClientUsed(last'.op, NoneRef), GroupAsked(last'.op))
             ) => last'.out.value = last'.default ]_vars

C1_Witness ==
    /\ last.op = "get_app_secret"
    /\ last.net = 1
    /\ "APP_SECRETS_NAME" \notin DOMAIN env
    /\ remote[AppGroup] = Raise(ClientError("ThrottlingException"))
    /\ last.default = Str("fallback")
    /\ last.out = Return(Str("fallback"))

\* C2: when the upper-cased key is set to a non-empty string in the
\* environment, get_app_secret returns that string, builds no store client
\* and sends no request.
C2_EnvOverrideFirst ==
    [][ (last'.op = "get_app_secret" /\ Override("get_app_secret", last'.key)) =>
          /\ last'.out = Return(Str(env[upper(last'.key)]))
          /\ last'.net = 0
          /\ last'.ctor = 0
          /\ instances' = instances
          /\ _secrets_manager' = _secrets_manager
          /\ netCalls' = netCalls
          /\ cache' = cache ]_vars

C2_Witness ==
    /\ last.op = "get_app_secret"
    /\ last.key = "Jwt_Secret"
    /\ "JWT_SECRET" \in DOMAIN env
    /\ env["JWT_SECRET"] = "env-jwt-secret"
    /\ ~boto3_ok
    /\ remote[AppGroup] = Raise(EndpointConnectionError)
    /\ last.out = Return(Str("env-jwt-secret"))
    /\ instances = <<>>

\* C3: with no environment override and a group fetched as mapping m, the
\* lookup of key k returns m[k] when k is in m and the default otherwise.
C3_LookupMatchesReference ==
    [][ ( /\ last'.op \in ResolverOps \cup {"get_secret_value"}
          /\ ~Override(last'.op, last'.key)
          /\ last'.op \in ResolverOps => ~NoClient
          /\ FetchSucceeds(ClientUsed(last'.op, last'.self),
                           IF last'.op \in ResolverOps THEN GroupAsked(last'.op)
                           ELSE last'.name) ) =>
          LET m == MappingFetched(ClientUsed(last'.op, last'.self),
                                  IF last'.op \in ResolverOps THEN GroupAsked(last'.op)
                                  ELSE last'.name)
          IN  last'.out = Return(IF last'.key \in DOMAIN m
                                 THEN Str(m[last'.key]) ELSE last'.default) ]_vars

C3_Witness ==
    /\ last.op = "get_app_secret"
    /\ DOMAIN env = {}
    /\ last.key = "jwt_secret"
    /\ last.default = Str("fallback")
    /\ last.net = 1
    /\ remote[AppGroup] = SecretString(JsonObject(<<<<"jwt_secret", "old">>,
                                   <<"db_password", "pw">>, <<"jwt_secret", "xyz">>>>))
    /\ last.out = Return(Str("xyz"))

\* C4 as claimed: get_secret_value returns the default on any failure of
\* get_secret.
C4_AnyFailureGivesDefault ==
    [][ ( /\ last'.op = "get_secret_value"
          /\ get_secret(World, last'.self, last'.name).out.kind = "raise" ) =>
          last'.out = Return(last'.default) ]_vars

\* C4, amended: get_secret_value returns the default when get_secret fails
\* with a ValueError (group not found, binary payload, text that is not JSON)
\* or a PermissionError (access denied); any other error of get_secret leaves
\* get_secret_value unchanged.
C4_DefaultOnValueOrPermissionError ==
    [][ ( /\ last'.op = "get_secret_value"
          /\ get_secret(World, last'.self, last'.name).out.kind = "raise" ) =>
          LET e == get_secret(World, last'.self, last'.name).out.exc
          IN  IF e.type \in {"ValueError", "JSONDecodeError", "PermissionError"}
              THEN last'.out = Return(last'.default)
              ELSE last'.out = Raise(e) ]_vars

C4_Witness ==
    /\ last.op = "get_secret_value"
    /\ last.name = AppGroup
    /\ remote[AppGroup] = Raise(ClientError("ThrottlingException"))
    /\ last.out = Raise(ClientError("ThrottlingException"))

C6_NonObjectRejected ==
    [][ ( /\ last'.op = "get_secret"
          /\ ~Cached(last'.self, last'.name)
          /\ remote[last'.name].kind = "return"
          /\ ~AnswersObject(last'.name) ) =>
          /\ last'.out.kind = "raise"
          /\ last'.out.exc.type \in {"ValueError", "JSONDecodeError"}
          /\ cache' = cache ]_vars

------------------------------------------------------------------------------
(* Properties of the cache (SpecLru).  A step that leaves the environment  *)
(* and the store alone is a call of the program.                           *)

CallStep == env' = env /\ remote' = remote /\ boto3_ok' = boto3_ok /\ marker' = marker

LookupOps == {"get_secret", "get_secret_value"}

\* the call recorded in last' looks a group up in the store client
Looks ==
    /\ CallStep
    /\ \/ last'.op \in LookupOps
       \/ last'.op \in ResolverOps /\ ~Override(last'.op, last'.key) /\ ~NoClient
LookSelf == ClientUsed(last'.op, last'.self)
LookName == IF last'.op \in ResolverOps THEN GroupAsked(last'.op) ELSE last'.name

\* get_secret returns for name when it asks the store now
AnswerDecodes(name) ==
    /\ remote[name].kind = "return"
    /\ "SecretString" \in DOMAIN remote[name].value
    /\ remote[name].value.SecretString.form \in {"object", "array"}

\* C7: a get_secret(g) that follows a successful get_secret(g) on the same
\* object sends no request and returns the mapping the first call returned,
\* whatever the store holds by then.
C7_SecondCallHitsCache ==
    [][ ( /\ CallStep
          /\ last.op = "get_secret" /\ last.out.kind = "return"
          /\ last'.op = "get_secret"
          /\ last'.self = last.self /\ last'.name = last.name ) =>
          /\ last'.net = 0
          /\ last'.out = last.out
          /\ netCalls' = netCalls ]_vars

C7_Witness ==
    /\ last.op = "get_secret"
    /\ last.name = AppGroup
    /\ last.net = 0
    /\ netCalls[AppGroup] = 1
    /\ last.out = Return(Dict("jwt_secret" :> "xyz"))
    /\ remote[AppGroup] = Rotated

\* C8 as claimed: each group name that is looked up costs exactly one request
\* to the store, whether its fetches succeed or fail.  (The first lookup of a
\* group always sends a request, so the count of a group in use is at least 1.)
C8_ExactlyOneCallPerGroup ==
    /\ \A g \in DOMAIN netCalls : netCalls[g] <= 1
    /\ last.op \in LookupOps => netCalls[last.name] = 1

\* C8, amended: a lookup sends one request exactly when the cache holds no
\* entry for (object, group) at that moment, and none otherwise; the entry is
\* there afterwards exactly when it was there before or the fetch returned.
\* So a group whose fetch succeeded costs no further request while its entry
\* stays in the cache, and a fetch that failed is repeated by the next lookup.
C8_RequestIffUncached ==
    [][ CallStep =>
          IF Looks
          THEN LET miss == IF Cached(LookSelf, LookName) THEN 0 ELSE 1
               IN  /\ netCalls' = [netCalls EXCEPT ![LookName] = @ + miss]
                   /\ last'.net = miss
                   /\ CachedIn(cache', LookSelf, LookName)
                        <=> (Cached(LookSelf, LookName) \/ AnswerDecodes(LookName))
          ELSE netCalls' = netCalls ]_vars

C8_Witness ==
    /\ last.op = "get_app_secret"
    /\ last.net = 0
    /\ netCalls[AppGroup] = 2
    /\ Cached(1, AppGroup)

\* C9 as claimed: a lookup of a cached group answers from the cached mapping
\* without a request, and no call other than the explicit reset removes an
\* entry from the cache.
C9_EntryStaysUntilReset ==
    [][ (CallStep /\ last'.op # "cache_clear") =>
          /\ \A i \in 1..Len(cache) : \E j \in 1..Len(cache') : cache'[j] = cache[i]
          /\ (Looks /\ Cached(LookSelf, LookName)) => last'.net = 0 ]_vars

\* C9, amended: a lookup of a cached group answers from the cached mapping
\* without a request, whatever the store holds by then; an entry leaves the
\* cache by the explicit reset or by eviction only: when the cache holds
\* maxsize (32) entries, a lookup that stores a new entry drops the least
\* recently used one.
C9_EntryStaysUntilResetOrEviction ==
    [][ (CallStep /\ last'.op # "cache_clear") =>
          /\ \A i \in 1..Len(cache) :
                \/ \E j \in 1..Len(cache') : cache'[j] = cache[i]
                \/ /\ i = 1
                   /\ Len(cache) = maxsize
                   /\ Looks /\ ~Cached(LookSelf, LookName)
          /\ (Looks /\ Cached(LookSelf, LookName)) =>
                /\ last'.net = 0
                /\ LET v == CachedValue(LookSelf, LookName)
                   IN  IF last'.op = "get_secret"
                       THEN last'.out = Return(v)
                       ELSE last'.out = Return(IF last'.key \in DOMAIN v.d
                                               THEN Str(v.d[last'.key])
                                               ELSE last'.default) ]_vars

C9_Witness ==
    /\ last.op = "get_app_secret"
    /\ last.net = 0
    /\ last.out = Return(Str("xyz"))
    /\ remote[AppGroup] = Rotated

------------------------------------------------------------------------------
(* Properties of the Settings bootstrap (SpecSettings)                     *)

\* C10: get_settings() builds a Settings only when its cache is empty, that
\* is on the first call and on the first call after a reset; every other
\* call returns the object already cached, the identical one, whatever the
\* environment and the store have become; and nothing but the reset empties
\* the cache.
C10_SettingsSingleton ==
    [][ /\ (CallStep /\ last'.op = "get_settings") =>
             IF settings_cache # NoneRef
             THEN /\ last'.out = Return(Ref(settings_cache))
                  /\ last'.built = 0
                  /\ settings_objs' = settings_objs
                  /\ settings_cache' = settings_cache
             ELSE /\ last'.out = Return(Ref(Len(settings_objs) + 1))
                  /\ last'.built = 1
                  /\ Len(settings_objs') = Len(settings_objs) + 1
                  /\ settings_cache' = Len(settings_objs) + 1
        /\ (settings_cache # NoneRef /\ settings_cache' # settings_cache) =>
             (CallStep /\ last'.op = "settings_cache_clear") ]_vars

\* a second call returns the first object although the environment has
\* changed since it was built
C10_Witness ==
    /\ last.op = "get_settings"
    /\ last.built = 0
    /\ last.out = Return(Ref(1))
    /\ settings_cache = 1
    /\ settings_objs[1].jwt_secret = None
    /\ "JWT_SECRET" \in DOMAIN env

\* C11 (the claim as stated): a Settings object that get_settings() has built
\* and cached keeps the field values it was cached with; no step of the
\* program writes into it, load_from_secrets_manager included.
C11_NeverMutatedInPlace ==
    [][ \A i \in 1..Len(settings_objs) : settings_objs'[i] = settings_objs[i] ]_vars

\* the Settings object a get_settings() call has just built
Built == settings_objs[Len(settings_objs)]
JustBuilt == last.op = "get_settings" /\ last.built = 1

\* the texts in use whose lower-cased form is "true", "1" or "yes"
SaysTrue == {"true", "True", "TRUE", "1", "yes", "Yes", "YES"}

\* C12: a Settings built without arguments has use_secrets_manager = TRUE
\* exactly when /var/lib/cloud/instance exists or USE_SECRETS_MANAGER is set
\* to a text that lower-cased is "true", "1" or "yes".
C12_FlagFromMarkerOrVariable ==
    [][ (CallStep /\ JustBuilt') =>
          ( Built'.use_secrets_manager <=>
              \/ marker
              \/ /\ "USE_SECRETS_MANAGER" \in DOMAIN env
                 /\ env["USE_SECRETS_MANAGER"] \in SaysTrue ) ]_vars

\* built on a cloud host with USE_SECRETS_MANAGER unset: the flag is on
C12_Witness ==
    /\ JustBuilt
    /\ marker
    /\ "USE_SECRETS_MANAGER" \notin DOMAIN env
    /\ Built.use_secrets_manager

\* built off the cloud with USE_SECRETS_MANAGER=On, which pydantic alone
\* would read as true: the flag is off
C12_WitnessOn ==
    /\ JustBuilt
    /\ ~marker
    /\ "USE_SECRETS_MANAGER" \in DOMAIN env
    /\ env["USE_SECRETS_MANAGER"] = "On"
    /\ ~Built.use_secrets_manager

\* the lookup of the application group that a bootstrap starting now would
\* make cannot give a mapping: no client can be built, or the fetch fails
ResolutionFails ==
    IF NoClient
    THEN TRUE
    ELSE ~FetchSucceeds(ClientUsed("get_app_secret", NoneRef), GroupAsked("get_app_secret"))

\* C13: get_settings() returns a Settings object whatever the store does; when
\* the secrets are to be loaded and the lookup fails, every field of the
\* object built has the value Settings() gave it from the environment and
\* the defaults.
C13_BootstrapSurvivesStoreFailure ==
    [][ (CallStep /\ last'.op = "get_settings") =>
          /\ last'.out = Return(Ref(settings_cache'))
          /\ settings_cache' \in 1..Len(settings_objs')
          /\ (last'.built = 1 /\ Settings_init.use_secrets_manager /\ ResolutionFails) =>
                Built' = Settings_init ]_vars

\* a bootstrap with the secrets to be loaded, the store unreachable and
\* JWT_SECRET set but empty: three requests were sent, jwt_secret is still ""
C13_Witness ==
    /\ JustBuilt
    /\ Built.use_secrets_manager
    /\ remote[AppGroup] = Raise(EndpointConnectionError)
    /\ last.net = 3
    /\ Built.jwt_secret = Str("")
    /\ Built.db_password = None

\* C14 (the claim as stated): a bootstrap that is to load the secrets and
\* whose lookup of them fails prints a warning.
C14_WarningOnFailure ==
    [][ ( /\ CallStep
          /\ JustBuilt'
          /\ Settings_init.use_secrets_manager
          /\ ResolutionFails ) => last'.warned ]_vars

-------------------------------------------------------------------------------
(* Properties of the group names (SpecNames)                               *)

\* the group a resolver asks for if its default name is the plain one
PlainGroupAsked(op) ==
    IF op = "get_app_secret"
    THEN (IF "APP_SECRETS_NAME" \in DOMAIN env THEN env["APP_SECRETS_NAME"]
          ELSE PlainAppGroup)
    ELSE (IF "DEPLOYMENT_SECRETS_NAME" \in DOMAIN env
          THEN env["DEPLOYMENT_SECRETS_NAME"] ELSE PlainDeploymentGroup)

\* the groups a step sends a request to
Requested == {g \in DOMAIN netCalls : netCalls'[g] > netCalls[g]}

\* C15 (the claim as stated): a resolver asks for the group named by its
\* variable, else for "AppSecrets" respectively "DeploymentSecrets"; with an
\* empty environment and AppSecrets = {"jwt_secret": "xyz"} in the store,
\* get_app_secret("jwt_secret", "fallback") returns "xyz".
C15_PlainDefaultNames ==
    [][ last'.op \in ResolverOps =>
          /\ Requested \subseteq {PlainGroupAsked(last'.op)}
          /\ ( /\ last'.op = "get_app_secret"
               /\ DOMAIN env = {}
               /\ remote[PlainAppGroup] = Holding(PlainAppGroup)
               /\ last'.key = "jwt_secret"
               /\ last'.default = Str("fallback") ) =>
                 last'.out = Return(Str("xyz")) ]_vars

\* C15: a resolver asks for the group named by its variable, else for
\* "FastAPIAppSecrets" respectively "FastAPIDeploymentSecrets": that group
\* and no other is requested, once when the client has no entry for it, and
\* the call returns what the lookup of the unchanged key in that group gives,
\* the unchanged default when the key or the group is missing.
C15_GroupFromVariableOrDefault ==
    [][ (last'.op \in ResolverOps /\ ~Override(last'.op, last'.key)) =>
          LET g == GroupAsked(last'.op)
              self == ClientUsed(last'.op, NoneRef)
          IN  /\ Requested \subseteq {g}
              /\ ~Cached(self, g) => netCalls'[g] = netCalls[g] + 1
              /\ last'.out =
                    Return(IF FetchSucceeds(self, g)
                              /\ last'.key \in DOMAIN MappingFetched(self, g)
                           THEN Str(MappingFetched(self, g)[last'.key])
                           ELSE last'.default) ]_vars

\* with an empty environment, AppSecrets = {"jwt_secret": "xyz"} in the store
\* and no group FastAPIAppSecrets, get_app_secret("jwt_secret", "fallback")
\* has asked for FastAPIAppSecrets and returned "fallback"
C15_Witness ==
    /\ last.op = "get_app_secret"
    /\ DOMAIN env = {}
    /\ remote[PlainAppGroup] = Holding(PlainAppGroup)
    /\ remote[AppGroup] = NoSuchGroup
    /\ last.key = "jwt_secret"
    /\ last.default = Str("fallback")
    /\ netCalls[AppGroup] = 1
    /\ netCalls[PlainAppGroup] = 0
    /\ last.out = Return(Str("fallback"))

\* with DEPLOYMENT_SECRETS_NAME set, get_deployment_secret has read the group
\* it names
C15_WitnessDeployment ==
    /\ last.op = "get_deployment_secret"
    /\ "DEPLOYMENT_SECRETS_NAME" \in DOMAIN env
    /\ "APP_SECRETS_NAME" \in DOMAIN env
    /\ last.key = "jwt_secret"
    /\ netCalls[CustomDeployGroup] = 1
    /\ last.out = Return(Str(ValueIn(CustomDeployGroup)))

-------------------------------------------------------------------------------
(* The deployment resolver and the environment (Spec)                      *)

\* C16 (the claim as stated): when the upper-cased key is a non-empty
\* environment variable, get_deployment_secret returns its value and neither
\* builds a client nor sends a request.
C16_DeploymentEnvOverrideFirst ==
    [][ ( /\ last'.op = "get_deployment_secret"
          /\ upper(last'.key) \in DOMAIN env
          /\ env[upper(last'.key)] # "" ) =>
          /\ last'.out = Return(Str(env[upper(last'.key)]))
          /\ last'.net = 0
          /\ last'.ctor = 0 ]_vars

-------------------------------------------------------------------------------
(* Properties of the HTTP surface (SpecHttp)                               *)

Answered(op) == last.op = op /\ last.out.kind = "return"

\* C17: GET /api/v1/items/{id} answers 404 with detail "Item not found"
\* exactly when id > 100, and otherwise 200 with an item whose id is the id
\* asked for, for ids below zero as well.
C17_NotFoundAbove100 ==
    Answered("GET /api/v1/items/{item_id}") =>
        LET response == last.out.value
        IN  IF last.item_id > 100
            THEN response = [status_code |-> 404, body |-> [detail |-> "Item not found"]]
            ELSE /\ response.status_code = 200
                 /\ response.body.id = last.item_id

\* the item 100 has been asked for and was found
C17_Witness ==
    /\ Answered("GET /api/v1/items/{item_id}")
    /\ last.item_id = 100
    /\ last.out.value.status_code = 200
    /\ last.out.value.body.id = 100

C17_WitnessNotFound ==
    /\ Answered("GET /api/v1/items/{item_id}")
    /\ last.item_id = 101
    /\ last.out.value.status_code = 404

C17_WitnessNegative ==
    /\ Answered("GET /api/v1/items/{item_id}")
    /\ last.item_id < 0
    /\ last.out.value.status_code = 200
    /\ last.out.value.body.name = "Item -1"

\* C18: whatever has been posted, GET /api/v1/items answers with the same
\* three items and total 3; POST /api/v1/items answers with the payload it
\* was sent under the key item, and no variable of the program changes.
C18_ItemListFixed ==
    [][ /\ last'.op = "GET /api/v1/items" =>
             LET body == last'.out.value.body
             IN  /\ last'.out.value.status_code = 200
                 /\ body.total = 3
                 /\ Len(body.items) = 3
                 /\ \A i \in 1..3 : body.items[i].id = i
                 /\ <<body.items[1].name, body.items[2].name, body.items[3].name>>
                      = <<"Item 1", "Item 2", "Test Item">>
        /\ last'.op = "POST /api/v1/items" =>
             /\ last'.out.value.body = [message |-> "Item created", item |-> last'.item]
             /\ posted' # posted => last'.item = posted'[Len(posted')]
             /\ UNCHANGED <<env, remote, boto3_ok, instances, _secrets_manager, cache,
                            netCalls, settingsVars, main_settings, threads, cli>> ]_vars

\* the list has been asked for after two items were posted
C18_Witness ==
    /\ Answered("GET /api/v1/items")
    /\ Len(posted) >= 2
    /\ last.out.value.body.total = 3
    /\ Len(last.out.value.body.items) = 3

HttpOps ==
    {"GET /", "GET /health", "GET /api/v1/items", "GET /api/v1/items/{item_id}",
     "POST /api/v1/items"}

\* what the application answers to the request recorded in last when its
\* settings are the given object
AnswerWith(settings) ==
    CASE last.op = "GET /" -> root(settings)
      [] last.op = "GET /health" -> health_check
      [] last.op = "GET /api/v1/items" -> get_items
      [] last.op = "GET /api/v1/items/{item_id}" -> get_item(last.item_id)
      [] last.op = "POST /api/v1/items" -> create_item(last.item)

\* C19: the answer to every request is the one the application gives when
\* its settings are built from the environment alone, with no access to the
\* store; so two runs that differ only in the store's content or
\* availability, hence in db_password, jwt_secret and api_keys, answer every
\* request alike.
C19_ResponsesIgnoreStore ==
    last.op \in HttpOps =>
        /\ last.out.kind = "return"
        /\ last.out.value = AnswerWith(Settings_init)

\* GET / has been answered by an application whose settings hold a secret
\* that came from the store
C19_Witness ==
    /\ Answered("GET /")
    /\ settings_objs[main_settings].jwt_secret = Str("xyz")
    /\ Settings_init.jwt_secret = None
    /\ last.out.value.body.environment = "production"

-------------------------------------------------------------------------------
(* Properties of concurrent first lookups (SpecRace)                       *)

AllDone == \A t \in Threads : threads[t].pc = "done"

\* the cache entries that hold the group, whatever the object they belong to
EntriesOf(name) == {i \in 1..Len(cache) : cache[i].key[2] = name}

\* C20 (the claim as stated): once the concurrent callers have completed,
\* the cache holds at most one entry for the group, and a later lookup of
\* the group returns that entry and sends no request.
C20_OneEntryAfterRace ==
    [][ AllDone =>
          /\ Cardinality(EntriesOf(ThreadGroup)) <= 1
          /\ ( /\ CallStep
               /\ last'.op = "get_app_secret"
               /\ EntriesOf(ThreadGroup) # {} ) =>
                 /\ last'.net = 0
                 /\ last'.out =
                      ResolvedValue(Return(cache[CHOOSE i \in EntriesOf(ThreadGroup) : TRUE].value),
                                    ThreadKey, ThreadDefault) ]_vars

------------------------------------------------------------------------------
(* Requests per resolver call (Spec).                                      *)

\* C21: one call of get_app_secret or get_deployment_secret sends at most one
\* request to the store, to one group; when the request fails or its answer
\* is no JSON object, the call returns the default without asking again.
C21_OneRequestPerResolve ==
    [][ (CallStep /\ last'.op \in ResolverOps) =>
          /\ last'.net \in {0, 1}
          /\ Cardinality(Requested) = last'.net
          /\ \A g \in Requested : netCalls'[g] = netCalls[g] + 1
          /\ (last'.net = 1 /\ ~AnswersObject(GroupAsked(last'.op))) =>
                 last'.out = Return(last'.default) ]_vars

\* C21 witness: a resolver call whose only request was refused returned the
\* default.
C21_Witness ==
    /\ last.op = "get_app_secret"
    /\ last.net = 1
    /\ netCalls[AppGroup] = 1
    /\ remote[AppGroup] = Raise(ClientError("AccessDeniedException"))
    /\ last.default = Str("fallback")
    /\ last.out = Return(Str("fallback"))

------------------------------------------------------------------------------
(* Loading the secrets into a Settings (SpecSettings).                     *)

\* three resolver calls one after the other, db_password, jwt_secret and
\* api_keys, each with the field's value in obj as its default
ResolvedInOrder(w, obj) ==
    LET r1 == get_app_secret(w, "db_password", obj.db_password)
        r2 == get_app_secret(r1.w, "jwt_secret", obj.jwt_secret)
        r3 == get_app_secret(r2.w, "api_keys", obj.api_keys)
    IN  [w |-> r3.w,
         obj |-> [obj EXCEPT !.db_password = r1.out.value,
                             !.jwt_secret = r2.out.value,
                             !.api_keys = r3.out.value],
         net |-> r1.net + r2.net + r3.net,
         ctor |-> r1.ctor + r2.ctor + r3.ctor]

\* the state of the store client after the step
WorldAfter ==
    [instances |-> instances', sm |-> _secrets_manager', cache |-> cache',
     netCalls |-> netCalls']

\* load_from_secrets_manager ran in the step: on the cached object, or on
\* the new Settings() inside get_settings()
Loads == CallStep /\ (last'.op = "load_from_secrets_manager" \/ JustBuilt')
LoadedBefore ==
    IF last'.op = "load_from_secrets_manager"
    THEN settings_objs[last'.self] ELSE Settings_init
LoadedAfter ==
    IF last'.op = "load_from_secrets_manager"
    THEN settings_objs'[last'.self] ELSE settings_objs'[Len(settings_objs')]

\* C22: load_from_secrets_manager calls the resolver exactly when the
\* object's use_secrets_manager is true: then it resolves db_password,
\* jwt_secret and api_keys in that order, each with the field's value as the
\* default, and stores the results in the object; otherwise it makes no
\* resolver call, builds no client, sends no request and changes no field.
C22_LoadExactlyWhenFlagSet ==
    [][ Loads =>
          IF LoadedBefore.use_secrets_manager
          THEN \E l \in {ResolvedInOrder(World, LoadedBefore)} :
                   /\ LoadedAfter = l.obj
                   /\ WorldAfter = l.w
                   /\ last'.net = l.net
                   /\ last'.ctor = l.ctor
                   /\ ~last'.warned
          ELSE /\ LoadedAfter = LoadedBefore
               /\ WorldAfter = World
               /\ last'.net = 0
               /\ last'.ctor = 0 ]_vars

\* C22 witness: the load inside get_settings(), on an object whose flag is
\* set, sent one request and stored the remote jwt_secret in the object while
\* db_password, absent from the group, kept its value.
C22_Witness ==
    /\ JustBuilt
    /\ Built.use_secrets_manager
    /\ last.net = 1
    /\ last.ctor = 1
    /\ Built.jwt_secret = Str("xyz")
    /\ Built.db_password = None

\* C22 witness: a load on an object whose flag is not set did nothing, with a
\* store that holds the secrets and a client that could be built.
C22_WitnessFlagOff ==
    /\ last.op = "load_from_secrets_manager"
    /\ ~settings_objs[last.self].use_secrets_manager
    /\ settings_objs[last.self].jwt_secret = None
    /\ AnswersObject(AppGroup)
    /\ boto3_ok
    /\ netCalls[AppGroup] = 0

------------------------------------------------------------------------------
(* Bootstrap and requests (SpecHttp).                                      *)

\* C23: a request is served only after the import of app.main has built the
\* Settings, which happens once; serving a request builds no Settings,
\* resolves no secret, builds no store client and sends no request, and the
\* handler of "/" reads the object built at import.
C23_BootstrapBeforeRequests ==
    [][ /\ last'.op \in HttpOps =>
              /\ main_settings # NoneRef
              /\ main_settings' = main_settings
              /\ main_settings = 1
              /\ settings_objs' = settings_objs
              /\ settings_cache' = settings_cache
              /\ WorldAfter = World
              /\ last'.net = 0 /\ last'.ctor = 0 /\ last'.built = 0
              /\ last'.op = "GET /" =>
                     last'.out = Return(root(settings_objs[main_settings]))
        /\ settings_objs' # settings_objs =>
              /\ last'.op = "import app.main"
              /\ main_settings = NoneRef
              /\ settings_objs = <<>>
              /\ Len(settings_objs') = 1
              /\ main_settings' = 1 ]_vars

\* C23 witness: the import loaded the secrets with one request, and a request
\* for "/" was then answered from that Settings with no further request.
C23_Witness ==
    /\ last.op = "GET /"
    /\ main_settings = 1
    /\ Len(settings_objs) = 1
    /\ settings_objs[1].jwt_secret = Str("xyz")
    /\ netCalls[AppGroup] = 1
    /\ Len(instances) = 1
    /\ last.net = 0

------------------------------------------------------------------------------
(* The empty override (Spec).                                              *)

\* the variable of key is set to the empty string
EmptyOverride(key) == upper(key) \in DOMAIN env /\ env[upper(key)] = ""

\* C24: get_app_secret(k, default) with K set to the empty string does what
\* it does with K unset: it goes to the store client for the group and
\* returns what the lookup there gives, with the same requests and the same
\* effect on the client and its cache; the empty string is not returned as an
\* override.
C24_EmptyOverrideIsUnset ==
    [][ ( /\ CallStep
          /\ last'.op = "get_app_secret"
          /\ EmptyOverride(last'.key) ) =>
            \E r \in {resolve_remote(World,
                                     getenv("APP_SECRETS_NAME", Str(AppGroup)),
                                     last'.key, last'.default)} :
                /\ last'.out = r.out
                /\ last'.net = r.net
                /\ last'.ctor = r.ctor
                /\ WorldAfter = r.w
                /\ last'.out # Return(Str("")) ]_vars

\* C24 witness: with JWT_SECRET="" the call fetched the group and returned
\* the remote value.
C24_Witness ==
    /\ last.op = "get_app_secret"
    /\ last.key = "jwt_secret"
    /\ EmptyOverride("jwt_secret")
    /\ last.net = 1
    /\ last.out = Return(Str("xyz"))

\* C24 witness: with JWT_SECRET="" and a store that refuses, the call
\* returned the default.
C24_WitnessDefault ==
    /\ last.op = "get_app_secret"
    /\ last.key = "jwt_secret"
    /\ EmptyOverride("jwt_secret")
    /\ last.net = 1
    /\ last.default = Str("fallback")
    /\ last.out = Return(Str("fallback"))

------------------------------------------------------------------------------
(* The store client over calls made one after the other (SpecRecover).     *)

\* C25: get_secrets_manager() keeps one client for the process: a call that
\* finds the global set returns that object and builds nothing; a call that
\* finds it unset builds one, and either stores and returns it or, when
\* building fails, raises and leaves the global unset, so that the next call
\* builds again.  At most one SecretsManager is ever built, and the global,
\* once set, never changes.
C25_OneClientSequentially ==
    [][ /\ (CallStep /\ last'.op = "get_secrets_manager") =>
              IF _secrets_manager # NoneRef
              THEN /\ last'.out = Return(Ref(_secrets_manager))
                   /\ last'.ctor = 0
                   /\ instances' = instances
              ELSE /\ last'.ctor = 1
                   /\ IF boto3_ok
                      THEN /\ Len(instances') = Len(instances) + 1
                           /\ _secrets_manager' = Len(instances')
                           /\ last'.out = Return(Ref(_secrets_manager'))
                      ELSE /\ last'.out.kind = "raise"
                           /\ _secrets_manager' = NoneRef
                           /\ instances' = instances
        /\ Len(instances') <= 1
        /\ _secrets_manager # NoneRef => _secrets_manager' = _secrets_manager ]_vars

\* C25 witness: a call returned the client that an earlier call had built,
\* building nothing, at a time when building would fail.
C25_Witness ==
    /\ last.op = "get_secrets_manager"
    /\ last.ctor = 0
    /\ last.out = Return(Ref(1))
    /\ _secrets_manager = 1
    /\ Len(instances) = 1
    /\ ~boto3_ok

\* C25 witness: a call whose construction failed left the global unset.
C25_WitnessFailed ==
    /\ last.op = "get_secrets_manager"
    /\ last.ctor = 1
    /\ last.out.kind = "raise"
    /\ _secrets_manager = NoneRef
    /\ instances = <<>>

\* C26: a fetch that fails leaves nothing in the cache, and a lookup of a
\* group that has no entry sends a request and answers from what the store
\* holds now; so after a failed fetch of a group, once the store holds a
\* mapping for it, the next resolve of a key sends a new request and returns
\* the remote value, or the default only when the mapping lacks the key.
C26_FailureNotRemembered ==
    [][ (Looks /\ ~Cached(LookSelf, LookName)) =>
          /\ last'.net = 1
          /\ netCalls'[LookName] = netCalls[LookName] + 1
          /\ ~AnswerDecodes(LookName) =>
                 /\ cache' = cache
                 /\ last'.op = "get_secret" => last'.out.kind = "raise"
                 /\ last'.op \in ResolverOps => last'.out = Return(last'.default)
          /\ AnswersObject(LookName) =>
                 LET m == MappingOf(remote[LookName].value.SecretString.members)
                 IN  IF last'.op = "get_secret"
                     THEN last'.out = Return(Dict(m))
                     ELSE last'.out = Return(IF last'.key \in DOMAIN m
                                             THEN Str(m[last'.key])
                                             ELSE last'.default) ]_vars

\* C26 witness: the first request for the group failed, the store then held
\* a mapping, and the next resolve sent a second request and returned the
\* remote value.
C26_Witness ==
    /\ last.op = "get_app_secret"
    /\ last.key = "jwt_secret"
    /\ last.net = 1
    /\ netCalls[AppGroup] = 2
    /\ Len(cache) = 1
    /\ AnswersObject(AppGroup)
    /\ last.out = Return(Str("xyz"))

------------------------------------------------------------------------------
(* The command-line tool run alone (SpecCli) and overlapping (SpecCliRace) *)

\* the group holds a JSON object; the mapping that object denotes
HoldsObject(store, g) ==
    /\ store[g].kind = "return"
    /\ "SecretString" \in DOMAIN store[g].value
    /\ store[g].value.SecretString.form = "object"
StoredMapping(store, g) == MappingOf(store[g].value.SecretString.members)

CliSetOps == {"set_app_secret", "set_deployment_secret"}

\* C27: set_app_secret(k, v) and set_deployment_secret(k, v), run alone, read,
\* modify and write their own group: a group that held a JSON object holds
\* afterwards the same mapping with k set to v; a group that did not exist is
\* created holding {k: v}; the other group is untouched.  On a group whose
\* content cannot be read as a JSON object the command ends with an error and
\* writes nothing.
C27_ReadModifyWrite ==
    [][ last'.op \in CliSetOps =>
          LET g == IF last'.op = "set_app_secret" THEN AppGroup ELSE DeploymentGroup
              k == last'.key
              v == last'.value
          IN  /\ \A o \in DOMAIN remote \ {g} : remote'[o] = remote[o]
              /\ IF HoldsObject(remote, g)
                 THEN /\ last'.out = Return(None)
                      /\ HoldsObject(remote', g)
                      /\ StoredMapping(remote', g) =
                           [j \in DOMAIN StoredMapping(remote, g) \cup {k} |->
                               IF j = k THEN v ELSE StoredMapping(remote, g)[j]]
                 ELSE IF remote[g] = Raise(ClientError("ResourceNotFoundException"))
                      THEN /\ last'.out = Return(None)
                           /\ HoldsObject(remote', g)
                           /\ StoredMapping(remote', g) = (k :> v)
                      ELSE /\ last'.out.kind = "raise"
                           /\ remote'[g] = remote[g] ]_vars

\* C27 witness: set_app_secret("api_keys", "new") on a group that held
\* jwt_secret and db_password kept both and added the key, while the
\* deployment group still does not exist.
C27_Witness ==
    /\ last.op = "set_app_secret"
    /\ last.key = "api_keys"
    /\ last.value = "new"
    /\ last.out = Return(None)
    /\ HoldsObject(remote, AppGroup)
    /\ StoredMapping(remote, AppGroup) =
         ("jwt_secret" :> "xyz" @@ "db_password" :> "pw" @@ "api_keys" :> "new")
    /\ remote[DeploymentGroup] = Raise(ClientError("ResourceNotFoundException"))

\* C27 witness: set_deployment_secret created its group with the one key,
\* next to an application group that cannot be read.
C27_WitnessCreated ==
    /\ last.op = "set_deployment_secret"
    /\ last.out = Return(None)
    /\ remote[DeploymentGroup] = SecretString(JsonObject(<<<<"jwt_secret", "new">>>>))
    /\ remote[AppGroup] = SecretBinary

CliEnded == \A i \in DOMAIN cli : cli[i].pc \in {"done", "failed"}

\* C28 (the claim as stated): when the invocations that set different keys of
\* the application group have all ended, on a group that was absent or held a
\* JSON object, every invocation has succeeded and the group holds every
\* invocation's key with its new value.
C28_BothUpdatesKept ==
    (CliEnded /\ HoldsObject(remote, AppGroup)) =>
        \A i \in DOMAIN cli :
            /\ cli[i].pc = "done"
            /\ CliKeys[i] \in DOMAIN StoredMapping(remote, AppGroup)
            /\ StoredMapping(remote, AppGroup)[CliKeys[i]] = "new"

====
